---- MODULE Spec2Model ----
(***************************************************************************)
(* A model of the SeisHub database client, obspy.seishub.client:           *)
(* the Client object (parameter normalisation in _fetch, the explicit-     *)
(* method request _HTTP_request, testAuth) and the waveform, station and   *)
(* event mapper clients built on it.                                       *)
(*                                                                         *)
(* A call is one step: from pc = "idle" an operation runs to completion    *)
(* and leaves, with pc = "done", the call it served (call), the requests   *)
(* it sent with the answer each got (requests), the warnings it emitted    *)
(* (warnings) and what it returned or raised (result).  Done forgets the   *)
(* call.  The server is the environment: each answer is drawn from a small *)
(* set.  Times are integers, in milliseconds.                              *)
(***************************************************************************)
EXTENDS Integers, Sequences, FiniteSets, TLC

VARIABLES
    clients,    \* the Client objects constructed so far
    opener,     \* the process-wide opener installed by urllib2.install_opener
    pc,         \* "idle" or "done"
    call,       \* the operation called and its arguments
    requests,   \* the requests sent during the call, in order
    warnings,   \* the warnings emitted during the call, in order
    result,     \* what the call returned or raised
    files       \* the files of the file system: what each name holds

vars == <<clients, opener, pc, call, requests, warnings, result, files>>

-----------------------------------------------------------------------------
(* Bounds of the model.                                                    *)

\* the largest number of keyword arguments drawn for a direct _fetch call
MaxKeys == 2
\* starttime and endtime are drawn from 0 .. MaxTime, in units of 10 s
MaxTime == 1
\* the largest number of Client objects constructed
MaxClients == 2

-----------------------------------------------------------------------------
(* Python values: the arguments of a call are tagged by their type.        *)

None == [t |-> "None"]
PyStr(s) == [t |-> "str", s |-> s]
PyInt(i) == [t |-> "int", i |-> i]
PyBool(b) == [t |-> "bool", b |-> b]
PyTuple(e) == [t |-> "tuple", e |-> e]
PyList(e) == [t |-> "list", e |-> e]
UTCDateTime(ms) == [t |-> "UTCDateTime", ms |-> ms]

\* the truth value of a Python object: `if not value`
Truthy(v) ==
    CASE v.t = "None" -> FALSE
      [] v.t = "str" -> v.s # ""
      [] v.t = "int" -> v.i # 0
      [] v.t = "bool" -> v.b
      [] v.t \in {"tuple", "list"} -> Len(v.e) > 0
      [] OTHER -> TRUE

RECURSIVE Repr(_)
RECURSIVE JoinRepr(_)
\* repr(v): how str() of a tuple or list shows an element
Repr(v) ==
    CASE v.t = "None" -> "None"
      [] v.t = "str" -> "'" \o v.s \o "'"
      [] v.t = "int" -> ToString(v.i)
      [] v.t = "bool" -> (IF v.b THEN "True" ELSE "False")
      [] v.t = "tuple" ->
            IF Len(v.e) = 1 THEN "(" \o Repr(v.e[1]) \o ",)"
            ELSE "(" \o JoinRepr(v.e) \o ")"
      [] v.t = "list" -> "[" \o JoinRepr(v.e) \o "]"
      [] v.t = "UTCDateTime" -> "UTCDateTime(" \o ToString(v.ms) \o ")"

JoinRepr(e) ==
    IF e = <<>> THEN ""
    ELSE IF Len(e) = 1 THEN Repr(e[1])
    ELSE Repr(e[1]) \o ", " \o JoinRepr(Tail(e))

\* str(v)
Str(v) ==
    CASE v.t = "str" -> v.s
      [] v.t = "UTCDateTime" -> ToString(v.ms) \o "Z"
      [] OTHER -> Repr(v)

-----------------------------------------------------------------------------
(* Module constants.                                                       *)

HTTP_ACCEPTED_DATA_METHODS == {"PUT", "POST"}
HTTP_ACCEPTED_NODATA_METHODS == {"HEAD", "GET", "DELETE"}
HTTP_ACCEPTED_METHODS ==
    HTTP_ACCEPTED_DATA_METHODS \cup HTTP_ACCEPTED_NODATA_METHODS

DEPRECATED_KEYWORDS ==
    [network_id |-> "network", station_id |-> "station",
     location_id |-> "location", channel_id |-> "channel",
     start_datetime |-> "starttime", end_datetime |-> "endtime"]

KEYWORDS ==
    [network |-> "network_id", station |-> "station_id",
     location |-> "location_id", channel |-> "channel_id",
     starttime |-> "start_datetime", endtime |-> "end_datetime"]

-----------------------------------------------------------------------------
(* Dictionaries are functions from keys (strings) to values.               *)

EmptyDict == <<>>

\* d[k] = v
Put(d, k, v) == [x \in DOMAIN d \cup {k} |-> IF x = k THEN v ELSE d[x]]

\* del d[k]
Del(d, k) == [x \in DOMAIN d \ {k} |-> d[x]]

\* a call that returns ret / raises exc, having sent reqs and warned warns
Return(ret, reqs, warns) ==
    [kind |-> "return", value |-> ret, reqs |-> reqs, warns |-> warns]
Raise(exc, reqs, warns) ==
    [kind |-> "raise", exc |-> exc, reqs |-> reqs, warns |-> warns]

-----------------------------------------------------------------------------
(* Client._fetch: parameter normalisation and the GET it sends.            *)

\* `for key, value in KEYWORDS.iteritems()`: every keyword of KEYWORDS that
\* is present is moved to the name KEYWORDS gives it
MapKeywordsSwapped(kwargs) ==
    LET moved == {k \in DOMAIN DEPRECATED_KEYWORDS : k \in DOMAIN kwargs}
        keys == (DOMAIN kwargs \ moved) \cup {DEPRECATED_KEYWORDS[k] : k \in moved}
    IN  [n \in keys |->
            IF \E k \in moved : DEPRECATED_KEYWORDS[k] = n
            THEN kwargs[CHOOSE k \in moved : DEPRECATED_KEYWORDS[k] = n]
            ELSE kwargs[n]]

MapKeywords(kwargs) ==
    LET moved == {k \in DOMAIN KEYWORDS : k \in DOMAIN kwargs}
        keys == (DOMAIN kwargs \ moved) \cup {KEYWORDS[k] : k \in moved}
    IN  [n \in keys |->
            IF \E k \in moved : KEYWORDS[k] = n
            THEN kwargs[CHOOSE k \in moved : KEYWORDS[k] = n]
            ELSE kwargs[n]]

\* a 2-element tuple or list
IsRange(value) == value.t \in {"tuple", "list"} /\ Len(value.e) = 2

\* the entries one pass of the second loop writes for key
FoldOneNoRange(params, key, value) ==
    IF ~Truthy(value) THEN params ELSE Put(params, key, Str(value))

FoldOneKeepEmpty(params, key, value) ==
    IF IsRange(value)
    THEN Put(Put(params, "min_" \o key, Str(value.e[1])),
             "max_" \o key, Str(value.e[2]))
    ELSE Put(params, key, Str(value))

FoldOne(params, key, value) ==
    IF ~Truthy(value) THEN params
    ELSE IF IsRange(value)
    THEN Put(Put(params, "min_" \o key, Str(value.e[1])),
             "max_" \o key, Str(value.e[2]))
    ELSE Put(params, key, Str(value))

RECURSIVE FoldParams(_, _, _)
\* `for key, value in kwargs.iteritems()`, the keys taken in the given order
FoldParams(kwargs, order, params) ==
    IF order = <<>> THEN params
    ELSE FoldParams(kwargs, Tail(order),
                    FoldOne(params, Head(order), kwargs[Head(order)]))

\* the names of the entries key writes
Writes(key, value) == DOMAIN FoldOne(EmptyDict, key, value)

\* the keys whose entries meet those of another key
Colliding(kwargs) ==
    {k \in DOMAIN kwargs : \E j \in DOMAIN kwargs \ {k} :
        Writes(k, kwargs[k]) \cap Writes(j, kwargs[j]) # {}}

RECURSIVE SeqOf(_)
\* some enumeration of a set
SeqOf(S) ==
    IF S = {} THEN <<>>
    ELSE LET x == CHOOSE x \in S : TRUE IN <<x>> \o SeqOf(S \ {x})

\* all enumerations of a set
Perms(S) ==
    {p \in [1 .. Cardinality(S) -> S] : \A i, j \in DOMAIN p : p[i] = p[j] => i = j}

\* The order of iteritems() is that of the dictionary's hash table, which
\* the caller does not control.  Orders that differ only by keys whose
\* entries meet no other key's give the same params: one is kept of each.
IterOrders(kwargs) ==
    {SeqOf(DOMAIN kwargs \ Colliding(kwargs)) \o p : p \in Perms(Colliding(kwargs))}

\* the params of the query, kwargs iterated in the given order
Normalize(kwargs, order) == FoldParams(MapKeywords(kwargs), order, EmptyDict)

\* the request urllib2.urlopen(remoteaddr) sends: remoteaddr is
\* base_url + url + '?' + urlencode(params); url holds the part before '?'
GetRequest(c, url, params, resp) ==
    [method |-> "GET", url |-> clients[c].base_url \o url, params |-> params,
     data |-> "", opener |-> opener, response |-> resp]

\* answers of the server to a GET: a body, or no answer (URLError, timeout)
IsBody(resp) == resp.kind = "body"

_fetch(c, url, kwargs, order, resp) ==
    LET req == GetRequest(c, url, Normalize(kwargs, order), resp)
    IN  IF IsBody(resp) THEN Return(resp.doc, <<req>>, <<>>)
        ELSE Raise("URLError", <<req>>, <<>>)

-----------------------------------------------------------------------------
(* The inputs drawn for a direct call of _fetch.                           *)

FetchKeys == {"network", "network_id", "magnitude", "min_magnitude", "max_magnitude"}

FetchValues ==
    {None, PyStr(""), PyStr("BW"), PyInt(0), PyInt(5), PyBool(FALSE),
     PyTuple(<<PyInt(0), PyStr("")>>), PyTuple(<<PyInt(1), PyInt(2)>>),
     PyList(<<PyStr("a"), PyStr("b")>>), PyTuple(<<PyInt(7)>>),
     PyList(<<>>), UTCDateTime(1000)}

KwargsOver(keys, values, n) ==
    UNION {[K -> values] : K \in {K \in SUBSET keys : Cardinality(K) <= n}}

GetBodies == {[kind |-> "body", doc |-> [t |-> "empty"]], [kind |-> "URLError"]}

-----------------------------------------------------------------------------
(* Construction and the direct calls of Client._fetch.                     *)

\* the names of the files of the model, and a name that holds no file
Filenames == {"events.kml", "other.kml"}
NoFile == [t |-> "no file"]

\* Client.__init__
ClientInit(base_url, user, password, timeout) ==
    [base_url |-> base_url, user |-> user, password |-> password,
     timeout |-> timeout]

\* the opener __init__ builds and installs: base_url, user and password of
\* password_mgr.add_password
Opener(client) ==
    [base_url |-> client.base_url, user |-> client.user, password |-> client.password]

\* client = Client(): the defaults of __init__
Init ==
    /\ clients = <<ClientInit("http://teide.geophysik.uni-muenchen.de:8080",
                              "admin", "admin", 10)>>
    /\ opener = Opener(clients[1])
    /\ pc = "idle"
    /\ call = [op |-> "none"]
    /\ requests = <<>>
    /\ warnings = <<>>
    /\ result = [kind |-> "none"]
    /\ files = [filename \in Filenames |-> NoFile]

\* what every call does with the outcome of its body
Finish(c, outcome) ==
    \E out \in {outcome} :
        /\ pc' = "done"
        /\ call' = c
        /\ requests' = out.reqs
        /\ warnings' = out.warns
        /\ result' = IF out.kind = "return"
                     THEN [kind |-> "return", value |-> out.value]
                     ELSE [kind |-> "raise", exc |-> out.exc]
        /\ UNCHANGED <<clients, opener, files>>

Fetch ==
    /\ pc = "idle"
    /\ \E c \in DOMAIN clients, kwargs \in KwargsOver(FetchKeys, FetchValues, MaxKeys),
          resp \in GetBodies :
        \E order \in IterOrders(MapKeywords(kwargs)) :
            Finish([op |-> "_fetch", client |-> c, url |-> "/xml/", kwargs |-> kwargs,
                    order |-> order],
                   _fetch(c, "/xml/", kwargs, order, resp))

\* the strings of a params mapping as keyword arguments again
AsKwargs(params) == [k \in DOMAIN params |-> PyStr(params[k])]

\* _fetch called with the params of the last _fetch as its keyword arguments
FetchAgain ==
    /\ pc = "done"
    /\ call.op = "_fetch"
    /\ Len(requests) = 1
    /\ \E kwargs \in {AsKwargs(requests[1].params)} :
        \E resp \in GetBodies, order \in IterOrders(MapKeywords(kwargs)) :
            Finish([op |-> "_fetch_again", client |-> call.client, url |-> call.url,
                    kwargs |-> kwargs, order |-> order, first |-> requests[1].params],
                   _fetch(call.client, call.url, kwargs, order, resp))

Done ==
    /\ pc = "done"
    /\ pc' = "idle"
    /\ call' = [op |-> "none"]
    /\ requests' = <<>>
    /\ warnings' = <<>>
    /\ result' = [kind |-> "none"]
    /\ UNCHANGED <<clients, opener, files>>

NextFetch == Fetch \/ FetchAgain \/ Done

SpecFetch == Init /\ [][NextFetch]_vars


-----------------------------------------------------------------------------
(* Calling a mapper operation: the deprecated_keywords decorator, the      *)
(* binding of the named parameters, and the loop over locals().            *)

\* the part of a table on some of its keys
Restrict(f, S) == [k \in S \cap DOMAIN f |-> f[k]]

\* obspy.core.util.deprecated_keywords(keywords): a keyword argument of the
\* call that is a key of keywords is passed on under the name keywords
\* gives it.  When the call also gives that name, which of the two values
\* is passed on is left open: canonicalWins says which.
deprecated_keywords(keywords, kwargs, canonicalWins) ==
    LET dep == DOMAIN kwargs \cap DOMAIN keywords
        keys == (DOMAIN kwargs \ dep) \cup {keywords[k] : k \in dep}
    IN  [n \in keys |->
            IF n \in DOMAIN kwargs /\ (canonicalWins \/ ~\E k \in dep : keywords[k] = n)
            THEN kwargs[n]
            ELSE kwargs[CHOOSE k \in dep : keywords[k] = n]]

\* the call gives a keyword under both of its names
BothNames(keywords, kw) ==
    \E k \in DOMAIN kw \cap DOMAIN keywords : keywords[k] \in DOMAIN kw

\* Python binds the named parameters (defaults where the call gives none);
\* `for key, value in locals().iteritems(): kwargs[key] = value` then puts
\* every one of them into kwargs
BindLocals(defaults, kwargs) ==
    [k \in DOMAIN kwargs \cup DOMAIN defaults |->
        IF k \in DOMAIN kwargs THEN kwargs[k] ELSE defaults[k]]

\* the keyword arguments a decorated method hands to _fetch
Bound(keywords, defaults, kwargs, canonicalWins) ==
    BindLocals(defaults, deprecated_keywords(keywords, kwargs, canonicalWins))

\* objectify.fromstring(doc): the document fetched must be XML
Objectified(got) ==
    IF got.kind = "raise" THEN got
    ELSE IF got.value.t # "xml" THEN Raise("XMLSyntaxError", got.reqs, got.warns)
    ELSE got

\* Client._objectify
_objectify(c, url, kwargs, order, resp) == Objectified(_fetch(c, url, kwargs, order, resp))

RECURSIVE StrField(_, _)
\* [str(node[field]) for node in root.getchildren()]
StrField(nodes, field) ==
    IF nodes = <<>> THEN <<>>
    ELSE <<Str(Head(nodes)[field])>> \o StrField(Tail(nodes), field)

\* the list of ids made of the document root
IdsOf(root, field) ==
    IF root.kind = "raise" THEN root
    ELSE IF \E i \in DOMAIN root.value.nodes : field \notin DOMAIN root.value.nodes[i]
    THEN Raise("AttributeError", root.reqs, root.warns)
    ELSE Return(StrField(root.value.nodes, field), root.reqs, root.warns)

\* the methods that list ids: getNetworkIds, getStationIds, getLocationIds,
\* getChannelIds.  url names the mapper; field is the field listed.
ListIds(c, url, field, kwargs, order, resp) ==
    IdsOf(_objectify(c, url, kwargs, order, resp), field)

\* [dict(((k, v.pyval) for k, v in node.__dict__.iteritems())) for node in ...]
DictsOf(root) ==
    IF root.kind = "raise" THEN root
    ELSE Return(root.value.nodes, root.reqs, root.warns)

\* the methods that list records: waveform getLatency, station getList
ListDicts(c, url, kwargs, order, resp) == DictsOf(_objectify(c, url, kwargs, order, resp))

-----------------------------------------------------------------------------
(* The inputs drawn for the mapper operations.                             *)

MapperKeys ==
    DOMAIN DEPRECATED_KEYWORDS \cup {"network", "station"}

MapperValues == {PyStr("BW"), PyStr(""), PyTuple(<<PyStr("A"), PyStr("B")>>)}

IdNodes ==
    <<[network |-> PyStr("BW"), station |-> PyStr("MANZ"),
       location |-> PyStr(""), channel |-> PyStr("EHZ")],
      [network |-> PyStr("BW"), station |-> PyStr("RTPI"),
       location |-> PyStr("00"), channel |-> PyStr("EHN")],
      [latency |-> PyInt(3)]>>

\* answers to a listing request
XmlBody(nodes) == [kind |-> "body", doc |-> [t |-> "xml", nodes |-> nodes]]
EmptyBody == [kind |-> "body", doc |-> [t |-> "empty"]]
NoAnswer == [kind |-> "URLError"]

ListingAnswers ==
    {NoAnswer, EmptyBody, XmlBody(<<>>), XmlBody(SubSeq(IdNodes, 1, 2)),
     XmlBody(IdNodes)}

-----------------------------------------------------------------------------
(* The listing operations of the waveform and station mapper clients.      *)

\* the listing of network ids, fetched under /xml/
NetworkIdsBodyXml(c, kwargs, order, resp) ==
    ListIds(c, "/xml/seismology/waveform/getNetworkIds", "network", kwargs, order, resp)

\* _WaveformMapperClient.getNetworkIds, the keyword arguments bound
NetworkIdsBody(c, kwargs, order, resp) ==
    ListIds(c, "/seismology/waveform/getNetworkIds", "network", kwargs, order, resp)

StationIdsBody(c, kwargs, order, resp) ==
    ListIds(c, "/seismology/waveform/getStationIds", "station", kwargs, order, resp)

LocationIdsBody(c, kwargs, order, resp) ==
    ListIds(c, "/seismology/waveform/getLocationIds", "location", kwargs, order, resp)

ChannelIdsBody(c, kwargs, order, resp) ==
    ListIds(c, "/seismology/waveform/getChannelIds", "channel", kwargs, order, resp)

LatencyBody(c, kwargs, order, resp) ==
    ListDicts(c, "/seismology/waveform/getLatency", kwargs, order, resp)

\* _StationMapperClient.getList, the keyword arguments bound
StationListBody(c, kwargs, order, resp) ==
    ListDicts(c, "/seismology/station/getList", kwargs, order, resp)

\* the body of the listing method op
ListingBody(op, c, kwargs, order, resp) ==
    CASE op = "getNetworkIds" -> NetworkIdsBody(c, kwargs, order, resp)
      [] op = "getStationIds" -> StationIdsBody(c, kwargs, order, resp)
      [] op = "getLocationIds" -> LocationIdsBody(c, kwargs, order, resp)
      [] op = "getChannelIds" -> ChannelIdsBody(c, kwargs, order, resp)
      [] op = "getLatency" -> LatencyBody(c, kwargs, order, resp)
      [] op = "station.getList" -> StationListBody(c, kwargs, order, resp)

\* a listing method called with keyword arguments kw: keywords is the table
\* of its decorator, defaults its named parameters.  canonicalWins is drawn
\* only where the call gives a keyword under both of its names.
Listing(op, keywords, defaults) ==
    /\ pc = "idle"
    /\ \E c \in DOMAIN clients, kw \in KwargsOver(MapperKeys, MapperValues, MaxKeys),
          canonicalWins \in BOOLEAN, resp \in ListingAnswers :
        /\ canonicalWins \/ BothNames(keywords, kw)
        /\ \E kwargs \in {Bound(keywords, defaults, kw, canonicalWins)} :
            \E order \in IterOrders(MapKeywords(kwargs)) :
                Finish([op |-> op, client |-> c, kw |-> kw,
                        canonicalWins |-> canonicalWins, kwargs |-> kwargs,
                        order |-> order],
                       ListingBody(op, c, kwargs, order, resp))

getNetworkIds == Listing("getNetworkIds", EmptyDict, EmptyDict)

getStationIds ==
    Listing("getStationIds", Restrict(DEPRECATED_KEYWORDS, {"network_id"}),
            [network |-> None])

getLocationIds ==
    Listing("getLocationIds",
            Restrict(DEPRECATED_KEYWORDS, {"network_id", "station_id"}),
            [network |-> None, station |-> None])

getChannelIds ==
    Listing("getChannelIds",
            Restrict(DEPRECATED_KEYWORDS, {"network_id", "station_id", "location_id"}),
            [network |-> None, station |-> None, location |-> None])

getLatency ==
    Listing("getLatency",
            Restrict(DEPRECATED_KEYWORDS,
                     {"network_id", "station_id", "location_id", "channel_id"}),
            [network |-> None, station |-> None, location |-> None, channel |-> None])

stationGetList ==
    Listing("station.getList",
            Restrict(DEPRECATED_KEYWORDS, {"network_id", "station_id"}),
            [network |-> None, station |-> None])

-----------------------------------------------------------------------------
(* The station mapper client: getCoordinates and getPAZ.                   *)

\* The order of the keys where a client method calls another with scalar
\* arguments: no two keys' entries meet, every order gives the same params.
SoleOrder(kwargs) == SeqOf(DOMAIN MapKeywords(kwargs))

\* the pieces the strings of the model are made of
Pieces == {"", "E", "B", "H", "Z", "N", "*", "?", "0", "EH", "BH", "HZ", "HN", "H*",
           "00", "EHZ", "EHN", "BH*", "*HZ"}

\* `t in s` for strings
Contains(s, t) == \E a \in Pieces, b \in Pieces : s = a \o t \o b

\* s[0]; the string must not be empty
FirstChar(s) ==
    CHOOSE ch \in {x \in Pieces : Len(x) = 1} : \E rest \in Pieces : s = ch \o rest

\* the nodes of a station resource under station_control_header
ChannelIdentifier(channel, location) ==
    [tag |-> "channel_identifier", channel_identifier |-> channel,
     location_identifier |-> location]
PolesAndZeros(real_pole, imaginary_pole, real_zero, imaginary_zero, A0) ==
    [tag |-> "response_poles_and_zeros", real_pole |-> real_pole,
     imaginary_pole |-> imaginary_pole, real_zero |-> real_zero,
     imaginary_zero |-> imaginary_zero, A0_normalization_factor |-> A0]
SensitivityGain(stage, gain) ==
    [tag |-> "channel_sensitivity_gain", stage_sequence_number |-> stage,
     sensitivity_gain |-> gain]

\* zip(a, b): pairs, as many as the shorter list has
Zip(a, b) ==
    [i \in 1 .. (IF Len(a) < Len(b) THEN Len(a) ELSE Len(b)) |-> <<a[i], b[i]>>]

\* the indices of the nodes with the tag that follow, as siblings, a
\* channel_identifier node of this channel and location:
\* channel_identifier[channel_identifier='..' and location_identifier='..']
\*     /following-sibling::tag
Following(header, channel, location, tag) ==
    {i \in DOMAIN header :
        /\ header[i].tag = tag
        /\ \E j \in 1 .. i - 1 :
            /\ header[j].tag = "channel_identifier"
            /\ header[j].channel_identifier = channel
            /\ header[j].location_identifier = location}

Min(S) == CHOOSE x \in S : \A y \in S : x <= y
Max(S) == CHOOSE x \in S : \A y \in S : x >= y

\* the nodes with a tag, in document order
Tagged(header, tag) == {i \in DOMAIN header : header[i].tag = tag}

\* paz = {...}: the dictionary built from the three nodes chosen
PazDict(paz_node, sensitivity_node, seismometer_gain_node, seismometer_gain) ==
    LET paz == [poles |-> Zip(paz_node.real_pole, paz_node.imaginary_pole),
                zeros |-> Zip(paz_node.real_zero, paz_node.imaginary_zero),
                gain |-> paz_node.A0_normalization_factor,
                sensitivity |-> sensitivity_node.sensitivity_gain]
    IN  IF seismometer_gain
        THEN Put(paz, "seismometer_gain", seismometer_gain_node.sensitivity_gain)
        ELSE paz

\* the second half of getPAZ: the nodes chosen in the resource fetched
PazOfResource(header, channel, location, seismometer_gain, reqs, warns) ==
    IF channel # "" \/ location # ""
    THEN LET paz == Following(header, channel, location, "response_poles_and_zeros")
             gains == Following(header, channel, location, "channel_sensitivity_gain")
             stage0 == {i \in gains : header[i].stage_sequence_number = "0"}
             stage1 == {i \in gains : header[i].stage_sequence_number = "1"}
         IN  IF paz = {} \/ stage0 = {} \/ stage1 = {}
             THEN Raise("IndexError", reqs, warns)
             ELSE Return(PazDict(header[Min(paz)], header[Min(stage0)],
                                 header[Min(stage1)], seismometer_gain), reqs, warns)
    ELSE LET paz == Tagged(header, "response_poles_and_zeros")
             gains == Tagged(header, "channel_sensitivity_gain")
         IN  IF paz = {} \/ gains = {}
             THEN Raise("AttributeError", reqs, warns)
             ELSE Return(PazDict(header[Min(paz)], header[Max(gains)],
                                 header[Min(gains)], seismometer_gain), reqs, warns)

\* _BaseRESTClient.getXMLResource of the station mapper
getXMLResource(c, resource_name, resp) ==
    _objectify(c, "/xml/" \o "seismology" \o "/" \o "station" \o "/" \o resource_name,
               EmptyDict, <<>>, resp)

\* self.getList(...) as getPAZ and getCoordinates call it: the keyword
\* arguments are given under their canonical names
StationListOf(c, kwargs, list) == StationListBody(c, kwargs, SoleOrder(kwargs), list)
StationList(c, kw, list) ==
    StationListOf(c, Bound(Restrict(DEPRECATED_KEYWORDS, {"network_id", "station_id"}),
                           [network |-> None, station |-> None], kw, TRUE),
                  list)

\* `for t in ['*', '?']: if t in channel: channel = ''`
Unfiltered(s) == IF Contains(s, "*") \/ Contains(s, "?") THEN "" ELSE s

\* no warning, however many were listed
MoreThanOneSilent(listed, msg) == <<>>

\* `if len(...) > 1: warnings.warn(msg)`
MoreThanOne(listed, msg) == IF Len(listed.value) > 1 THEN <<msg>> ELSE <<>>

\* getPAZ from `base_node = res.station_control_header` on
PazFetched(res, reqs, channel, location, seismometer_gain, warns) ==
    IF res.kind = "raise" THEN Raise(res.exc, reqs \o res.reqs, warns)
    ELSE IF "station_control_header" \notin DOMAIN res.value
    THEN Raise("AttributeError", reqs \o res.reqs, warns)
    ELSE PazOfResource(res.value.station_control_header, channel, location,
                       seismometer_gain, reqs \o res.reqs, warns)

\* getPAZ from `if not station_list` on.  `t in channel` and `t in
\* location` raise TypeError unless channel and location are strings.
PazListed(c, station_list, location, channel, seismometer_gain, resource) ==
    IF station_list.kind = "raise" THEN station_list
    ELSE IF station_list.value = <<>>
    THEN Return(EmptyDict, station_list.reqs, station_list.warns)
    ELSE IF channel.t # "str" \/ location.t # "str"
    THEN Raise("TypeError", station_list.reqs, station_list.warns)
    ELSE PazFetched(getXMLResource(c, station_list.value[1].resource_name.s,
                                   resource[station_list.value[1].resource_name.s]),
                    station_list.reqs, Unfiltered(channel.s), Unfiltered(location.s),
                    seismometer_gain,
                    MoreThanOne(station_list,
                                "Received more than one PAZ file. Using first."))

\* _StationMapperClient.getPAZ.  channel and location are Python values;
\* list is the answer to the listing request, resource[name] the answer to
\* the request of the resource of that name.
getPAZ(c, network, station, datetime, location, channel, seismometer_gain, list, resource) ==
    PazListed(c, StationList(c, [network |-> network, station |-> station,
                                 datetime |-> datetime], list),
              location, channel, seismometer_gain, resource)

\* getCoordinates from `if not metadata` on
CoordinatesListed(metadata, warns) ==
    IF metadata.kind = "raise" THEN metadata
    ELSE IF metadata.value = <<>>
    THEN Raise("Exception: No coordinates for station", metadata.reqs, metadata.warns)
    ELSE IF ~({"latitude", "longitude", "elevation"} \subseteq DOMAIN metadata.value[1])
    THEN Raise("KeyError", metadata.reqs, warns)
    ELSE Return([key \in {"latitude", "longitude", "elevation"} |->
                    metadata.value[1][key]], metadata.reqs, warns)

\* the warning of getCoordinates
CoordinatesWarns(metadata) ==
    IF metadata.kind = "raise" THEN <<>>
    ELSE MoreThanOne(metadata, "Received more than one metadata set. Using first.")

\* the rest of getCoordinates, the listing made
CoordinatesOf(metadata) == CoordinatesListed(metadata, CoordinatesWarns(metadata))

\* _StationMapperClient.getCoordinates
getCoordinates(c, network, station, datetime, location, list) ==
    CoordinatesOf(StationList(c, [network |-> network, station |-> station,
                                  datetime |-> datetime, location |-> location], list))

-----------------------------------------------------------------------------
(* Streams, and what the waveform mapper client needs of obspy.core.       *)

\* obspy.core.util.BAND_CODE: the nominal sample rate, in Hz, of the band
\* code a channel name starts with (the band codes of an integral rate)
BAND_CODE ==
    [F |-> 1000, G |-> 1000, D |-> 250, C |-> 250, E |-> 80, S |-> 10, H |-> 80,
     B |-> 10, M |-> 1, L |-> 1]

\* 2.0 / BAND_CODE[band_code] seconds, in milliseconds
Padding(band_code) == 2000 \div BAND_CODE[band_code]

\* the times of the model, and a time written as text
TimeRange == {10000 * k : k \in 0 .. MaxTime}
TimeText(ms) == "T" \o ToString(ms)

\* UTCDateTime(text)
ParseTime(text) == UTCDateTime(CHOOSE ms \in TimeRange : TimeText(ms) = text)

\* a trace: the identifier, the times of its first and last sample, stats
Trace(id, starttime, endtime) ==
    [id |-> id, starttime |-> starttime, endtime |-> endtime, stats |-> EmptyDict]

HasSamples(trace) == trace.starttime <= trace.endtime

\* Trace.trim(starttime, endtime): the samples outside the window are cut
\* (to the nearest sample: a trace holds a sample at every time in it)
TrimTrace(trace, starttime, endtime) ==
    [trace EXCEPT !.starttime = IF @ < starttime.ms THEN starttime.ms ELSE @,
                  !.endtime = IF @ > endtime.ms THEN endtime.ms ELSE @]

\* Stream.trim(starttime, endtime): every trace is trimmed, and the traces
\* left without samples are removed
Trim(stream, starttime, endtime) ==
    SelectSeq([i \in DOMAIN stream |-> TrimTrace(stream[i], starttime, endtime)],
              HasSamples)

\* `for tr in stream: tr.stats[key] = value.copy()`
SetStats(stream, key, value) ==
    [i \in DOMAIN stream |-> [stream[i] EXCEPT !.stats = Put(@, key, value)]]

RECURSIVE Join(_, _)
\* sep.join(list) for a list of strings
Join(list, sep) ==
    IF list = <<>> THEN ""
    ELSE IF Len(list) = 1 THEN list[1].s
    ELSE list[1].s \o sep \o Join(Tail(list), sep)

-----------------------------------------------------------------------------
(* The waveform mapper client: getWaveform, getPreview, getPreviewByIds.   *)

NoWaveformData == "Exception: No waveform data available"
NoChannelWarning == "No channel id provided."
PazChanging == "Exception: PAZ information changing from start time to end time."
CoordinatesChanging ==
    "Exception: Coordinate information changing from start time to end time."

\* `if not data: raise ...; stream = pickle.loads(data)` in getPreview and
\* getPreviewByIds
UnpicklePreview(got) ==
    IF got.kind = "raise" THEN got
    ELSE IF got.value.t = "empty" THEN Raise(NoWaveformData, got.reqs, got.warns)
    ELSE IF got.value.t # "pickle" THEN Raise("UnpicklingError", got.reqs, got.warns)
    ELSE Return(got.value.stream, got.reqs, got.warns)

\* `if data == '': raise ...; stream = pickle.loads(data);
\* if len(stream) == 0: raise ...` in getWaveform
Unpickle(got) ==
    IF got.kind = "raise" THEN got
    ELSE IF got.value.t = "empty" THEN Raise(NoWaveformData, got.reqs, got.warns)
    ELSE IF got.value.t # "pickle" THEN Raise("UnpicklingError", got.reqs, got.warns)
    ELSE IF Len(got.value.stream) = 0 THEN Raise(NoWaveformData, got.reqs, got.warns)
    ELSE Return(got.value.stream, got.reqs, got.warns)

\* one call after another: the requests and warnings of both
After(first, second) ==
    [second EXCEPT !.reqs = first.reqs \o @, !.warns = first.warns \o @]

\* `if paz != paz_check`, `if coords != coords_check`
ChangingNot(value, check) == FALSE

Changing(value, check) == value # check

\* `if metadata_timecheck: ... if paz != paz_check: raise Exception(msg)`,
\* `for tr in stream: tr.stats[key] = paz.copy()`: first is the lookup at
\* starttime, check the lookup at endtime, made only if metadata_timecheck
Attached(first, check, metadata_timecheck, stream, key, msg) ==
    IF first.kind = "raise" THEN first
    ELSE IF ~Truthy(metadata_timecheck)
    THEN Return(SetStats(stream, key, first.value), first.reqs, first.warns)
    ELSE IF check.kind = "raise" THEN After(first, check)
    ELSE IF Changing(first.value, check.value)
    THEN After(first, Raise(msg, check.reqs, check.warns))
    ELSE After(first, Return(SetStats(stream, key, first.value), check.reqs, check.warns))

\* `if getPAZ:` ... in getWaveform.  args are the arguments as given (the
\* window not padded); listS and listE are the station listings the server
\* holds for starttime and for endtime.
AttachPAZ(c, args, stream, listS, listE, resource) ==
    Attached(getPAZ(c, args.network, args.station, args.starttime, args.location,
                    args.channel, FALSE, listS, resource),
             getPAZ(c, args.network, args.station, args.endtime, args.location,
                    args.channel, FALSE, listE, resource),
             args.metadata_timecheck, stream, "paz", PazChanging)

\* `if getCoordinates:` ... in getWaveform
AttachCoordinates(c, args, stream, listS, listE) ==
    Attached(getCoordinates(c, args.network, args.station, args.starttime,
                            args.location, listS),
             getCoordinates(c, args.network, args.station, args.endtime,
                            args.location, listE),
             args.metadata_timecheck, stream, "coordinates", CoordinatesChanging)

\* getWaveform from `if getCoordinates:` on
WithCoordinates(withPaz, c, args, listS, listE) ==
    IF withPaz.kind = "raise" \/ ~Truthy(args.getCoordinates) THEN withPaz
    ELSE After(withPaz, AttachCoordinates(c, args, withPaz.value, listS, listE))

\* getWaveform from `if getPAZ:` on
Enrich(c, args, stream, listS, listE, resource) ==
    WithCoordinates(IF Truthy(args.getPAZ)
                    THEN AttachPAZ(c, args, stream, listS, listE, resource)
                    ELSE Return(stream, <<>>, <<>>),
                    c, args, listS, listE)

\* `if isinstance(kwargs[time], str): kwargs[time] = UTCDateTime(kwargs[time])`
AsTime(value) == IF value.t = "str" THEN ParseTime(value.s) ELSE value

\* the window sent: expanded by two samples on both ends if a channel is given
PaddedNot(kwargs, padding) == kwargs

Padded(kwargs, padding) ==
    [kwargs EXCEPT !.starttime = UTCDateTime(@.ms - padding),
                   !.endtime = UTCDateTime(@.ms + padding)]

\* trimming is done only if the window was expanded
Trimmed(stream, channel, trim_start, trim_end) ==
    IF Truthy(channel) THEN Trim(stream, trim_start, trim_end) ELSE stream

\* `if channel: ... else: warnings.warn(msg)`
NoChannelWarns(channel) == IF Truthy(channel) THEN <<>> ELSE <<NoChannelWarning>>

\* `for time in ["starttime", "endtime"]: ...`
TimesParsed(kwargs) == [kwargs EXCEPT !.starttime = AsTime(@), !.endtime = AsTime(@)]

\* kwargs as the fetch gets them: the window expanded if a channel is given
Window(kwargs) ==
    IF Truthy(kwargs.channel)
    THEN Padded(kwargs, Padding(FirstChar(kwargs.channel.s)))
    ELSE kwargs

\* `data = self.client._fetch(url, **kwargs)` in getWaveform
WaveformFetch(c, kwargs, wave) ==
    _fetch(c, "/seismology/waveform/getWaveform", kwargs, SoleOrder(kwargs), wave)

\* getWaveform from `if channel: stream.trim(...)` on: trim_start and
\* trim_end are the times of kwargs before the window was expanded
WaveformFetched(got, c, args, kwargs, listS, listE, resource) ==
    IF got.kind = "raise" THEN got
    ELSE After(got, Enrich(c, args,
                           Trimmed(got.value, args.channel, kwargs.starttime,
                                   kwargs.endtime),
                           listS, listE, resource))

\* getWaveform from `if channel:` on, kwargs holding the times parsed
WaveformWindowed(c, args, kwargs, wave, listS, listE, resource) ==
    IF Truthy(args.channel) /\ FirstChar(args.channel.s) \notin DOMAIN BAND_CODE
    THEN Raise("KeyError", <<>>, <<>>)
    ELSE IF /\ Truthy(args.channel)
            /\ (kwargs.starttime.t # "UTCDateTime" \/ kwargs.endtime.t # "UTCDateTime")
    THEN Raise("TypeError", <<>>, <<>>)
    ELSE WaveformFetched(After(Return(None, <<>>, NoChannelWarns(args.channel)),
                               Unpickle(WaveformFetch(c, Window(kwargs), wave))),
                         c, args, kwargs, listS, listE, resource)

\* _WaveformMapperClient.getWaveform, the arguments bound: args holds every
\* named parameter and the further keyword arguments
getWaveformBody(c, args, wave, listS, listE, resource) ==
    WaveformWindowed(c, args, TimesParsed(args), wave, listS, listE, resource)

\* _WaveformMapperClient.getPreview, the arguments bound: `if not data`
\* is the only check
getPreviewBody(c, kwargs, order, wave) ==
    UnpicklePreview(_fetch(c, "/seismology/waveform/getPreview", kwargs, order, wave))

\* kwargs['trace_ids'] = ','.join(kwargs['trace_ids']) if it is a list
JoinTraceIds(kwargs) ==
    IF kwargs.trace_ids.t = "list"
    THEN [kwargs EXCEPT !.trace_ids = PyStr(Join(@.e, ","))]
    ELSE kwargs

\* _WaveformMapperClient.getPreviewByIds, the arguments bound
getPreviewByIdsBody(c, kwargs, order, wave) ==
    UnpicklePreview(_fetch(c, "/seismology/waveform/getPreview", JoinTraceIds(kwargs),
                           order, wave))

-----------------------------------------------------------------------------
(* The inputs drawn for the waveform mapper client, and the server's       *)
(* answers.                                                                *)

\* an argument the call does not give
Absent == [t |-> "absent"]
Opt(key, value) == IF value = Absent THEN EmptyDict ELSE key :> value

\* keyword arguments given under their deprecated names (drawn for the calls
\* of getWaveform that ask for no station metadata)
UnderDeprecatedNames(kw) ==
    [n \in {IF k \in DOMAIN KEYWORDS THEN KEYWORDS[k] ELSE k : k \in DOMAIN kw} |->
        IF n \in DOMAIN DEPRECATED_KEYWORDS THEN kw[DEPRECATED_KEYWORDS[n]] ELSE kw[n]]

\* starttime and endtime: both left out, or a window; starttime may be
\* given as text
Windows ==
    {<<Absent, Absent>>}
    \cup {w \in ({PyStr(TimeText(0))} \cup {UTCDateTime(ms) : ms \in TimeRange})
                \X {UTCDateTime(ms) : ms \in TimeRange} :
            AsTime(w[1]).ms <= w[2].ms}

WaveformDefaults ==
    [location |-> None, channel |-> None, starttime |-> None, endtime |-> None,
     apply_filter |-> PyBool(FALSE), getPAZ |-> PyBool(FALSE),
     getCoordinates |-> PyBool(FALSE), metadata_timecheck |-> PyBool(TRUE)]

WaveformCalls ==
    {[network |-> PyStr("BW"), station |-> PyStr("MANZ")]
        @@ Opt("location", location) @@ Opt("channel", channel)
        @@ Opt("starttime", w[1]) @@ Opt("endtime", w[2])
        @@ Opt("getPAZ", paz) @@ Opt("getCoordinates", coords)
        @@ Opt("metadata_timecheck", timecheck) :
        location \in {Absent, PyStr(""), PyStr("00")},
        channel \in {Absent, PyStr(""), PyStr("EHZ"), PyStr("BH*"), PyStr("*HZ")},
        w \in Windows,
        paz \in {Absent, PyBool(TRUE)}, coords \in {Absent, PyBool(TRUE)},
        timecheck \in {Absent, PyBool(FALSE)}}

\* the streams the server holds
Streams ==
    {<<>>,
     <<Trace("BW.MANZ..EHZ", -60000, 60000)>>,
     <<Trace("BW.MANZ..EHZ", 2000, 8000), Trace("BW.MANZ..EHN", -60000, 60000)>>}

PickleBody(stream) == [kind |-> "body", doc |-> [t |-> "pickle", stream |-> stream]]

WaveAnswers == {NoAnswer, EmptyBody} \cup {PickleBody(stream) : stream \in Streams}

\* the station records and resources the server holds
StationRecords ==
    <<[resource_name |-> PyStr("dataless.seed.BW_MANZ.xml"), network_id |-> PyStr("BW"),
       station_id |-> PyStr("MANZ"), latitude |-> PyInt(49), longitude |-> PyInt(12),
       elevation |-> PyInt(635)],
      [resource_name |-> PyStr("dataless.seed.BW_MANZ.2.xml"), network_id |-> PyStr("BW"),
       station_id |-> PyStr("MANZ"), latitude |-> PyInt(48), longitude |-> PyInt(11),
       elevation |-> PyInt(565)]>>

StationHeaders ==
    <<<<ChannelIdentifier("EHZ", ""),
        PolesAndZeros(<<-37, -37, -251>>, <<37, -37, 0>>, <<0, 0>>, <<0, 0>>, 60077),
        SensitivityGain("1", 400), SensitivityGain("0", 25168),
        ChannelIdentifier("EHN", ""),
        PolesAndZeros(<<-37, -37>>, <<37, -37>>, <<0, 0>>, <<0, 0>>, 60077),
        SensitivityGain("1", 400), SensitivityGain("0", 25170)>>,
      <<ChannelIdentifier("EHZ", "00"),
        PolesAndZeros(<<-4, -4>>, <<4, -4>>, <<0, 0>>, <<0, 0>>, 1),
        SensitivityGain("1", 1500), SensitivityGain("0", 62914)>> >>

\* the answer to the request of a resource, by name
StationResources ==
    [name \in {StationRecords[i].resource_name.s : i \in DOMAIN StationRecords} |->
        LET i == CHOOSE i \in DOMAIN StationRecords :
                    StationRecords[i].resource_name.s = name
        IN  [kind |-> "body",
             doc |-> [t |-> "xml", nodes |-> <<>>,
                      station_control_header |-> StationHeaders[i]]]]

\* the answers to station getList: what the server holds for a time
StationAnswers ==
    {NoAnswer, XmlBody(<<>>), XmlBody(SubSeq(StationRecords, 1, 1)),
     XmlBody(SubSeq(StationRecords, 2, 2)), XmlBody(StationRecords)}

\* the call reaches the lookups of station metadata only with a stream
ReachesLookups(args, wave) ==
    /\ Truthy(args.getPAZ) \/ Truthy(args.getCoordinates)
    /\ wave.kind = "body" /\ wave.doc.t = "pickle" /\ wave.doc.stream # <<>>

getWaveform ==
    /\ pc = "idle"
    /\ \E c \in DOMAIN clients, kw \in WaveformCalls, wave \in WaveAnswers,
          deprecated \in BOOLEAN :
        \E given \in {IF deprecated THEN UnderDeprecatedNames(kw) ELSE kw} :
        \E args \in {Bound(DEPRECATED_KEYWORDS, WaveformDefaults, given, TRUE)} :
            /\ deprecated => ~(Truthy(args.getPAZ) \/ Truthy(args.getCoordinates))
            /\ \E listS \in IF ReachesLookups(args, wave) THEN StationAnswers ELSE {NoAnswer},
                  listE \in IF ReachesLookups(args, wave) /\ Truthy(args.metadata_timecheck)
                            THEN StationAnswers ELSE {NoAnswer} :
                Finish([op |-> "getWaveform", client |-> c, kw |-> given, args |-> args,
                        listS |-> listS, listE |-> listE],
                       getWaveformBody(c, args, wave, listS, listE, StationResources))

PreviewKeys ==
    {"location_id", "channel_id", "start_datetime", "end_datetime", "starttime",
     "channel", "trace_ids"}

PreviewValues ==
    {PyStr("BH*"), UTCDateTime(0), PyList(<<PyStr("BW.MANZ..EHE"), PyStr("BW.MANZ..EHZ")>>)}

\* network and station, which a call of getPreview must give
PreviewRequired == [network |-> PyStr("BW"), station |-> PyStr("MANZ")]

getPreview ==
    /\ pc = "idle"
    /\ \E c \in DOMAIN clients, extra \in KwargsOver(PreviewKeys, PreviewValues, MaxKeys),
          deprecated \in BOOLEAN, canonicalWins \in BOOLEAN, wave \in WaveAnswers :
        \E kw \in {(IF deprecated THEN UnderDeprecatedNames(PreviewRequired)
                     ELSE PreviewRequired) @@ extra} :
        \E kwargs \in {Bound(DEPRECATED_KEYWORDS,
                             [location |-> None, channel |-> None, starttime |-> None,
                              endtime |-> None, trace_ids |-> None],
                             kw, canonicalWins)} :
            /\ canonicalWins \/ BothNames(DEPRECATED_KEYWORDS, kw)
            /\ \E order \in IterOrders(MapKeywords(kwargs)) :
                Finish([op |-> "getPreview", client |-> c, kw |-> kw,
                        canonicalWins |-> canonicalWins, kwargs |-> kwargs,
                        order |-> order],
                       getPreviewBody(c, kwargs, order, wave))

getPreviewByIds ==
    /\ pc = "idle"
    /\ \E c \in DOMAIN clients, kw \in KwargsOver(PreviewKeys, PreviewValues, MaxKeys),
          canonicalWins \in BOOLEAN, wave \in WaveAnswers :
        \E keywords \in {Restrict(DEPRECATED_KEYWORDS, {"start_datetime", "end_datetime"})} :
        \E kwargs \in {Bound(keywords,
                             [trace_ids |-> None, starttime |-> None, endtime |-> None],
                             kw, canonicalWins)} :
            /\ canonicalWins \/ BothNames(keywords, kw)
            /\ \E order \in IterOrders(MapKeywords(JoinTraceIds(kwargs))) :
                Finish([op |-> "getPreviewByIds", client |-> c, kw |-> kw,
                        canonicalWins |-> canonicalWins, kwargs |-> kwargs,
                        order |-> order],
                       getPreviewByIdsBody(c, kwargs, order, wave))

-----------------------------------------------------------------------------
(* Requests with an explicit method: RequestWithMethod, _HTTP_request,     *)
(* testAuth, putResource and deleteResource; and the construction of       *)
(* further clients.                                                        *)

\* RequestWithMethod.__init__: the method is checked, the rest is
\* urllib2.Request
RequestWithMethod(method, url, data, headers) ==
    IF method \notin HTTP_ACCEPTED_METHODS
    THEN Raise("ValueError", <<>>, <<>>)
    ELSE Return([method |-> method, url |-> url, data |-> data, headers |-> headers],
                <<>>, <<>>)

\* `method in HTTP_ACCEPTED_DATA_METHODS and not xml_string`
DataCheckSkipped(method, xml_string) == FALSE

DataMissing(method, xml_string) ==
    method \in HTTP_ACCEPTED_DATA_METHODS /\ xml_string = ""

\* `method in HTTP_ACCEPTED_NODATA_METHODS and xml_string`
DataUnexpected(method, xml_string) ==
    method \in HTTP_ACCEPTED_NODATA_METHODS /\ xml_string # ""

\* `except urllib2.HTTPError, e`: the exceptions of urlopen that are caught
ExceptNothing(answer) == FALSE

ExceptHTTPError(answer) == answer.kind = "HTTPError"

\* the request as sent through the opener of the first Client
SentFirst(req, answer) ==
    [method |-> req.method, url |-> req.url, data |-> req.data,
     headers |-> req.headers, opener |-> Opener(clients[1]), response |-> answer]

\* the request as sent through the installed opener, and the answer it got
Sent(req, answer) ==
    [method |-> req.method, url |-> req.url, data |-> req.data,
     headers |-> req.headers, opener |-> opener, response |-> answer]

\* Client._HTTP_request.  answer is what urlopen does: it returns a
\* response, raises HTTPError (both carry code and msg), or raises URLError.
_HTTP_request(url, method, xml_string, headers, answer) ==
    IF method \notin HTTP_ACCEPTED_METHODS THEN Raise("ValueError", <<>>, <<>>)
    ELSE IF DataMissing(method, xml_string) THEN Raise("TypeError", <<>>, <<>>)
    ELSE IF DataUnexpected(method, xml_string) THEN Raise("TypeError", <<>>, <<>>)
    ELSE LET req == RequestWithMethod(method, url, xml_string, headers)
         IN  IF req.kind = "raise" THEN req
             ELSE IF answer.kind = "response"
             THEN Return(<<answer.code, answer.msg>>, <<Sent(req.value, answer)>>, <<>>)
             ELSE IF ExceptHTTPError(answer)
             THEN Return(<<answer.code, answer.msg>>, <<Sent(req.value, answer)>>, <<>>)
             ELSE Raise(answer.kind, <<Sent(req.value, answer)>>, <<>>)

\* the end of testAuth: what the status code means
AuthResultStrict(code, reqs) ==
    IF code = 200 THEN Return(TRUE, reqs, <<>>)
    ELSE Raise("Exception: Unexpected request status code: " \o ToString(code), reqs, <<>>)

AuthResult(code, reqs) ==
    IF code = 200 THEN Return(TRUE, reqs, <<>>)
    ELSE IF code = 401 THEN Return(FALSE, reqs, <<>>)
    ELSE Raise("Exception: Unexpected request status code: " \o ToString(code), reqs, <<>>)

\* Client.testAuth
testAuthBody(c, answer) ==
    LET got == _HTTP_request(clients[c].base_url \o "/xml/", "HEAD", "", EmptyDict, answer)
    IN  IF got.kind = "raise" THEN got ELSE AuthResult(got.value[1], got.reqs)

\* '/'.join([self.client.base_url, 'xml', self.package, self.resourcetype,
\* resource_name]); the package of both mappers is 'seismology'
ResourceUrl(c, resourcetype, resource_name) ==
    clients[c].base_url \o "/" \o "xml" \o "/" \o "seismology" \o "/" \o resourcetype
        \o "/" \o resource_name

\* _BaseRESTClient.putResource
putResourceBody(c, resourcetype, resource_name, xml_string, headers, answer) ==
    _HTTP_request(ResourceUrl(c, resourcetype, resource_name), "PUT", xml_string,
                  headers, answer)

\* _BaseRESTClient.deleteResource
deleteResourceBody(c, resourcetype, resource_name, headers, answer) ==
    _HTTP_request(ResourceUrl(c, resourcetype, resource_name), "DELETE", "",
                  headers, answer)

-----------------------------------------------------------------------------
(* The inputs drawn for the requests with an explicit method.              *)

\* methods a caller may pass: the accepted ones, one of another case, and
\* one HTTP knows but the client does not
Methods == HTTP_ACCEPTED_METHODS \cup {"put", "PATCH"}

XmlStrings == {"", "<station/>"}

Headers == {EmptyDict, [UserAgent |-> "obspyck"]}

StatusCodes == {200, 201, 204, 401, 404, 500}

\* the reason phrase of a status code
Msg(code) ==
    CASE code = 200 -> "OK"
      [] code = 201 -> "Created"
      [] code = 204 -> "No Content"
      [] code = 401 -> "Unauthorized"
      [] code = 404 -> "Not Found"
      [] code = 500 -> "Internal Server Error"

\* what urlopen(req) does
UrlopenAnswers ==
    {[kind |-> k, code |-> code, msg |-> Msg(code)] :
        k \in {"response", "HTTPError"}, code \in StatusCodes}
    \cup {NoAnswer}

\* the mappers that are REST clients
RestMappers == {"station", "event"}

BaseUrls == {"http://teide.geophysik.uni-muenchen.de:8080", "http://localhost:8080"}

Credentials == {<<"admin", "admin">>, <<"obspy", "secret">>}

\* Client(base_url, user, password): a further client is constructed, and
\* its opener installed for the process
NewClient ==
    /\ pc = "idle"
    /\ Len(clients) < MaxClients
    /\ \E base_url \in BaseUrls, cred \in Credentials :
        LET client == ClientInit(base_url, cred[1], cred[2], 10) IN
        /\ clients' = Append(clients, client)
        /\ opener' = Opener(client)
    /\ UNCHANGED <<pc, call, requests, warnings, result, files>>

\* RequestWithMethod(method=method, url=url, data=data, headers=headers)
NewRequestWithMethod ==
    /\ pc = "idle"
    /\ \E c \in DOMAIN clients, method \in Methods, data \in XmlStrings :
        Finish([op |-> "RequestWithMethod", client |-> c, method |-> method,
                xml_string |-> data],
               RequestWithMethod(method, clients[c].base_url \o "/xml/", data, EmptyDict))

HTTPRequest ==
    /\ pc = "idle"
    /\ \E c \in DOMAIN clients, method \in Methods, xml_string \in XmlStrings,
          headers \in Headers, answer \in UrlopenAnswers :
        Finish([op |-> "_HTTP_request", client |-> c, method |-> method,
                xml_string |-> xml_string, headers |-> headers,
                url |-> clients[c].base_url \o "/xml/"],
               _HTTP_request(clients[c].base_url \o "/xml/", method, xml_string, headers,
                             answer))

testAuth ==
    /\ pc = "idle"
    /\ \E c \in DOMAIN clients, answer \in UrlopenAnswers :
        Finish([op |-> "testAuth", client |-> c], testAuthBody(c, answer))

putResource ==
    /\ pc = "idle"
    /\ \E c \in DOMAIN clients, mapper \in RestMappers, xml_string \in XmlStrings,
          headers \in Headers, answer \in UrlopenAnswers :
        Finish([op |-> "putResource", client |-> c, mapper |-> mapper, method |-> "PUT",
                resource_name |-> "new.xml", xml_string |-> xml_string,
                headers |-> headers],
               putResourceBody(c, mapper, "new.xml", xml_string, headers, answer))

deleteResource ==
    /\ pc = "idle"
    /\ \E c \in DOMAIN clients, mapper \in RestMappers, headers \in Headers,
          answer \in UrlopenAnswers :
        Finish([op |-> "deleteResource", client |-> c, mapper |-> mapper,
                method |-> "DELETE", resource_name |-> "old.xml", xml_string |-> "",
                headers |-> headers],
               deleteResourceBody(c, mapper, "old.xml", headers, answer))

-----------------------------------------------------------------------------
(* The event mapper client: getList, getKML and saveKML.                   *)

\* a Python float, in hundredths
PyFloat(h) == [t |-> "float", h |-> h]

\* the magnitudes of the model, in hundredths: none has a 5 in its last
\* digit, where %.1f would round by the binary value
Hundredths == {500, 506, -140, -150, -200}

\* str() of a float: '5.0', '5.06', '-1.5'
FloatText(h) ==
    (IF h < 0 THEN "-" ELSE "")
        \o ToString((IF h < 0 THEN -h ELSE h) \div 100) \o "."
        \o (IF (IF h < 0 THEN -h ELSE h) % 10 = 0
            THEN ToString(((IF h < 0 THEN -h ELSE h) % 100) \div 10)
            ELSE ToString(((IF h < 0 THEN -h ELSE h) % 100) \div 10)
                    \o ToString((IF h < 0 THEN -h ELSE h) % 10))

\* `mag = str(event_dict['magnitude'])`
MagnitudeText(value) ==
    IF value.t = "float" THEN FloatText(value.h) ELSE Str(value)

\* float(mag) can be taken
IsFloatText(text) == \E h \in Hundredths : FloatText(h) = text

\* float(mag), in hundredths
Float(text) == CHOOSE h \in Hundredths : FloatText(h) = text

\* "%.1f" % mag: the tenths nearest to mag
Fixed1(h) ==
    (IF h < 0 THEN "-" ELSE "")
        \o ToString((((IF h < 0 THEN -h ELSE h) + 5) \div 10) \div 10) \o "."
        \o ToString((((IF h < 0 THEN -h ELSE h) + 5) \div 10) % 10)

\* the texts of the datetime field: a date, and a time after a blank or none
Dates == {"2020-01-01", "2020-02-02"}
Clocks == {"", " 10:00:00", " 23:59:59"}

\* str(event_dict['datetime']).split(" ")[0]
DateOf(value) == CHOOSE d \in Dates : \E clock \in Clocks : Str(value) = d \o clock

\* `label = "%s: %.1f" % (date, mag)`, or `label = date` without magnitude
Label(date, mag) ==
    IF mag # "" THEN date \o ": " \o Fixed1(Float(mag)) ELSE date

\* the label, whatever nolabels says
NameAlways(nolabels, label) == label

\* the text of <name>: `if nolabels: ... = "" else: ... = label`
Name(nolabels, label) == IF Truthy(nolabels) THEN "" ELSE label

\* str(icon_size): 1.2 * log(1.5 + mag), 0.1 where log raises ValueError,
\* 0.5 without magnitude.  The logarithm is kept as a text of its argument.
IconSize(mag) ==
    IF mag = "" THEN "0.5"
    ELSE IF 150 + Float(mag) <= 0 THEN "0.1"
    ELSE "1.2 * log(" \o ToString(150 + Float(mag)) \o " / 100)"

\* one pass of `for event_dict in events`: the placemark added, or the
\* error raised
Placemark(event_dict, nolabels) ==
    IF "datetime" \notin DOMAIN event_dict \/ "magnitude" \notin DOMAIN event_dict
    THEN [kind |-> "raise", exc |-> "KeyError"]
    ELSE IF /\ MagnitudeText(event_dict.magnitude) # ""
            /\ ~IsFloatText(MagnitudeText(event_dict.magnitude))
    THEN [kind |-> "raise", exc |-> "ValueError"]
    ELSE IF "longitude" \notin DOMAIN event_dict \/ "latitude" \notin DOMAIN event_dict
    THEN [kind |-> "raise", exc |-> "KeyError"]
    ELSE [kind |-> "return",
          value |-> [name |-> Name(nolabels,
                                   Label(DateOf(event_dict.datetime),
                                         MagnitudeText(event_dict.magnitude))),
                     styleUrl |-> "#earthquake",
                     scale |-> IconSize(MagnitudeText(event_dict.magnitude)),
                     coordinates |-> <<event_dict.longitude, event_dict.latitude>>]]

\* the placemarks of the passes made so far, and one more
Added(placemark, rest) ==
    IF placemark.kind = "raise" \/ rest.kind = "raise"
    THEN (IF placemark.kind = "raise" THEN placemark ELSE rest)
    ELSE [kind |-> "return", value |-> <<placemark.value>> \o rest.value]

RECURSIVE Placemarks(_, _)
\* `for event_dict in events: placemark = SubElement(folder, "Placemark")`
Placemarks(events, nolabels) ==
    IF events = <<>> THEN [kind |-> "return", value |-> <<>>]
    ELSE Added(Placemark(Head(events), nolabels), Placemarks(Tail(events), nolabels))

\* tostring(kml, ...): the document, of which the model keeps the folder's
\* placemarks and the address fetched from
KmlString(placemarks, base_url, reqs, warns) ==
    IF placemarks.kind = "raise" THEN Raise(placemarks.exc, reqs, warns)
    ELSE Return([t |-> "kml", fetched_from |-> base_url,
                 placemarks |-> placemarks.value], reqs, warns)

\* the named parameters of _EventMapperClient.getList the model keeps, of
\* the 24 it has; all are treated alike
EventDefaults ==
    [limit |-> None, offset |-> None, min_datetime |-> None, min_latitude |-> None,
     min_magnitude |-> None, max_magnitude |-> None]

\* _EventMapperClient.getList
EventListBody(c, kwargs, resp) ==
    ListDicts(c, "/seismology/event/getList", BindLocals(EventDefaults, kwargs),
              SoleOrder(BindLocals(EventDefaults, kwargs)), resp)

\* getKML from `timestamp = datetime.now()` on
KmlOf(events, base_url, nolabels) ==
    IF events.kind = "raise" THEN events
    ELSE KmlString(Placemarks(events.value, nolabels), base_url, events.reqs,
                   events.warns)

\* _EventMapperClient.getKML(nolabels, **kwargs)
getKMLBody(c, nolabels, kwargs, resp) ==
    KmlOf(EventListBody(c, kwargs, resp), clients[c].base_url, nolabels)

\* no file is ever found
lexistsNever(filename) == FALSE

\* os.path.lexists(filename)
lexists(filename) == files[filename] # NoFile

\* saveKML up to `kml_string = self.getKML(**kwargs)`: kwargs may hold
\* nolabels, which getKML binds to its parameter
saveKMLString(c, filename, overwrite, kwargs, resp) ==
    IF ~Truthy(overwrite) /\ lexists(filename)
    THEN Raise("OSError", <<>>, <<>>)
    ELSE getKMLBody(c, BindLocals([nolabels |-> PyBool(FALSE)], kwargs).nolabels,
                    Del(kwargs, "nolabels"), resp)

\* the records of events the server may hold, and its answers to getList
EventRecords ==
    <<[datetime |-> PyStr("2020-01-01 10:00:00"), magnitude |-> PyFloat(500),
       longitude |-> PyFloat(1200), latitude |-> PyFloat(4800)],
      [datetime |-> PyStr("2020-02-02"), magnitude |-> PyStr(""),
       longitude |-> PyFloat(1100), latitude |-> PyFloat(4700)],
      [datetime |-> PyStr("2020-01-01 23:59:59"), magnitude |-> PyFloat(-200),
       longitude |-> PyFloat(1200), latitude |-> PyFloat(4800)],
      [datetime |-> PyStr("2020-02-02 10:00:00"), magnitude |-> PyFloat(506),
       longitude |-> PyFloat(1100), latitude |-> PyFloat(4700)],
      [datetime |-> PyStr("2020-01-01"), magnitude |-> PyFloat(-150),
       longitude |-> PyFloat(1200), latitude |-> PyFloat(4800)],
      [datetime |-> PyStr("2020-02-02"), magnitude |-> PyFloat(-140),
       longitude |-> PyFloat(1100), latitude |-> PyFloat(4700)],
      [datetime |-> PyStr("2020-01-01"), longitude |-> PyFloat(1200),
       latitude |-> PyFloat(4800)],
      [datetime |-> PyStr("2020-01-01"), magnitude |-> None,
       longitude |-> PyFloat(1200), latitude |-> PyFloat(4800)]>>

EventAnswers ==
    {NoAnswer, XmlBody(<<>>), XmlBody(SubSeq(EventRecords, 1, 2)),
     XmlBody(SubSeq(EventRecords, 3, 4)), XmlBody(SubSeq(EventRecords, 5, 6)),
     XmlBody(SubSeq(EventRecords, 6, 7)), XmlBody(SubSeq(EventRecords, 8, 8))}

\* the keyword arguments of the calls of getList, getKML and saveKML
EventCalls ==
    KwargsOver({"limit", "offset", "min_magnitude", "min_latitude"},
               {PyInt(0), PyInt(5)}, 1)

\* client.event.getList(**kw)
eventGetList ==
    /\ pc = "idle"
    /\ \E c \in DOMAIN clients, kw \in EventCalls, resp \in EventAnswers :
        Finish([op |-> "event.getList", client |-> c, kw |-> kw],
               EventListBody(c, kw, resp))

\* client.event.getKML(nolabels=nolabels, **kw)
getKML ==
    /\ pc = "idle"
    /\ \E c \in DOMAIN clients, nolabels \in BOOLEAN, kw \in EventCalls,
          resp \in EventAnswers :
        Finish([op |-> "getKML", client |-> c, nolabels |-> PyBool(nolabels),
                kw |-> kw],
               getKMLBody(c, PyBool(nolabels), kw, resp))

\* client.event.saveKML(filename, overwrite=overwrite, **kw): the file is
\* written with what getKML returned
saveKML ==
    /\ pc = "idle"
    /\ \E c \in DOMAIN clients, filename \in Filenames, overwrite \in BOOLEAN,
          labels \in {EmptyDict, [nolabels |-> PyBool(TRUE)]}, kw \in EventCalls,
          resp \in EventAnswers :
        \E out \in {saveKMLString(c, filename, PyBool(overwrite), labels @@ kw, resp)} :
            /\ pc' = "done"
            /\ call' = [op |-> "saveKML", client |-> c, filename |-> filename,
                        overwrite |-> PyBool(overwrite), kw |-> labels @@ kw]
            /\ requests' = out.reqs
            /\ warnings' = out.warns
            /\ result' = IF out.kind = "return"
                         THEN [kind |-> "return", value |-> None]
                         ELSE [kind |-> "raise", exc |-> out.exc]
            /\ files' = IF out.kind = "return"
                        THEN [files EXCEPT ![filename] = out.value]
                        ELSE files
            /\ UNCHANGED <<clients, opener>>

-----------------------------------------------------------------------------
(* The station mapper client called directly: getPAZ and getCoordinates.   *)

\* station_control_header of the resources the server may hold: channels
\* with their blocks; a channel whose poles and zeros are missing, followed
\* by another channel; component lists of unequal length; a channel
\* without its stage 1 gain
PazHeaders ==
    {StationHeaders[1],
     <<ChannelIdentifier("EHZ", ""),
       SensitivityGain("1", 400), SensitivityGain("0", 25168),
       ChannelIdentifier("EHN", ""),
       PolesAndZeros(<<-37, -37>>, <<37, -37>>, <<0, 0>>, <<0, 0>>, 60077),
       SensitivityGain("1", 400), SensitivityGain("0", 25170)>>,
     <<ChannelIdentifier("EHZ", ""),
       PolesAndZeros(<<-37, -37, -251>>, <<37, -37>>, <<0, 0>>, <<0>>, 60077),
       SensitivityGain("1", 400), SensitivityGain("0", 25168)>>,
     <<ChannelIdentifier("EHZ", ""),
       PolesAndZeros(<<-37, -37>>, <<37, -37>>, <<0, 0>>, <<0, 0>>, 60077),
       SensitivityGain("0", 25168)>>}

\* the answers to the request of a station resource
ResourceAnswers ==
    {NoAnswer} \cup
    {[kind |-> "body",
      doc |-> [t |-> "xml", nodes |-> <<>>, station_control_header |-> header]] :
        header \in PazHeaders}

\* the channel and location filters of a call
ChannelFilters == {"", "EHZ", "EHN", "EH*"}
LocationFilters == {"", "00"}

\* client.station.getPAZ(network, station, datetime, location, channel,
\*                       seismometer_gain)
stationGetPAZ ==
    /\ pc = "idle"
    /\ \E c \in DOMAIN clients, channel \in ChannelFilters, location \in LocationFilters,
          seismometer_gain \in BOOLEAN, list \in StationAnswers,
          answer \in ResourceAnswers :
        Finish([op |-> "station.getPAZ", client |-> c,
                args |-> [network |-> PyStr("BW"), station |-> PyStr("MANZ"),
                          datetime |-> UTCDateTime(0), location |-> PyStr(location),
                          channel |-> PyStr(channel),
                          seismometer_gain |-> seismometer_gain],
                list |-> list, resource |-> answer],
               getPAZ(c, PyStr("BW"), PyStr("MANZ"), UTCDateTime(0), PyStr(location),
                      PyStr(channel), seismometer_gain, list,
                      [name \in DOMAIN StationResources |-> answer]))

\* client.station.getCoordinates(network, station, datetime, location)
stationGetCoordinates ==
    /\ pc = "idle"
    /\ \E c \in DOMAIN clients, location \in LocationFilters, list \in StationAnswers :
        Finish([op |-> "station.getCoordinates", client |-> c,
                args |-> [network |-> PyStr("BW"), station |-> PyStr("MANZ"),
                          datetime |-> UTCDateTime(0), location |-> PyStr(location)],
                list |-> list],
               getCoordinates(c, PyStr("BW"), PyStr("MANZ"), UTCDateTime(0),
                              PyStr(location), list))

-----------------------------------------------------------------------------
(* getResource and getXMLResource of the station and event mapper clients. *)

\* _BaseRESTClient.getResource: resource_name and format go into kwargs
\* too, with the loop over locals()
getResourceBody(c, resourcetype, resource_name, format, resp) ==
    _fetch(c, "/xml/" \o "seismology" \o "/" \o resourcetype \o "/" \o resource_name,
           [resource_name |-> PyStr(resource_name), format |-> format],
           <<"resource_name", "format">>, resp)

\* the names of the resources asked for
ResourceNames == DOMAIN StationResources \cup {"new.xml"}

\* client.station.getResource(resource_name, format=format), and the same of
\* client.event
getResource ==
    /\ pc = "idle"
    /\ \E c \in DOMAIN clients, resourcetype \in RestMappers,
          resource_name \in ResourceNames, format \in {None, PyStr("map")},
          resp \in GetBodies \cup ResourceAnswers :
        Finish([op |-> "getResource", client |-> c, resourcetype |-> resourcetype,
                resource_name |-> resource_name, format |-> format],
               getResourceBody(c, resourcetype, resource_name, format, resp))

\* client.station.getXMLResource(resource_name)
stationGetXMLResource ==
    /\ pc = "idle"
    /\ \E c \in DOMAIN clients, resource_name \in ResourceNames,
          resp \in GetBodies \cup ResourceAnswers :
        Finish([op |-> "getXMLResource", client |-> c, resourcetype |-> "station",
                resource_name |-> resource_name],
               getXMLResource(c, resource_name, resp))

\* SPECIFICATIONS
NextMapper ==
    \/ getNetworkIds \/ getStationIds \/ getLocationIds \/ getChannelIds
    \/ getLatency \/ stationGetList \/ getPreview
    \/ Done

SpecMapper == Init /\ [][NextMapper]_vars

NextWaveform == getWaveform \/ getPreview \/ getPreviewByIds \/ Done

SpecWaveform == Init /\ [][NextWaveform]_vars

NextHTTP ==
    \/ NewClient \/ NewRequestWithMethod \/ HTTPRequest \/ testAuth
    \/ putResource \/ deleteResource
    \/ Done

SpecHTTP == Init /\ [][NextHTTP]_vars

NextStation == stationGetPAZ \/ stationGetCoordinates \/ stationGetList \/ Done

SpecStation == Init /\ [][NextStation]_vars

NextEvent == eventGetList \/ getKML \/ saveKML \/ Done

SpecEvent == Init /\ [][NextEvent]_vars

NextUrls ==
    \/ getNetworkIds \/ getStationIds \/ getLocationIds \/ getChannelIds
    \/ getLatency \/ getWaveform \/ getPreview \/ stationGetList \/ eventGetList
    \/ getResource \/ stationGetXMLResource
    \/ Done

SpecUrls == Init /\ [][NextUrls]_vars

-----------------------------------------------------------------------------
(* Claims about getWaveform, getPreview and getPreviewByIds (SpecWaveform). *)

WaveformDone == pc = "done" /\ call.op = "getWaveform"

WaveformUrl == clients[call.client].base_url \o "/seismology/waveform/getWaveform"

StationListUrl == clients[call.client].base_url \o "/seismology/station/getList"

\* the stream without the stats attached to its traces
Bare(stream) == [i \in DOMAIN stream |-> [stream[i] EXCEPT !.stats = EmptyDict]]

\* the first request was answered with a pickled stream
GotStream ==
    /\ Len(requests) >= 1
    /\ requests[1].response.kind = "body"
    /\ requests[1].response.doc.t = "pickle"

Decoded == requests[1].response.doc.stream

\* the call gives a window
HasWindow ==
    /\ AsTime(call.args.starttime).t = "UTCDateTime"
    /\ AsTime(call.args.endtime).t = "UTCDateTime"

\* the request carries the window exactly as the call gives it
WindowAsGiven ==
    \A time \in {"starttime", "endtime"} :
        LET v == AsTime(call.args[time]) IN
        IF Truthy(v)
        THEN /\ KEYWORDS[time] \in DOMAIN requests[1].params
             /\ requests[1].params[KEYWORDS[time]] = Str(v)
        ELSE KEYWORDS[time] \notin DOMAIN requests[1].params

\* C1: a getWaveform call with a channel (whose band code has a nominal
\* sample rate) and a window [starttime, endtime] issues exactly one waveform
\* fetch, for [starttime - 2/rate, endtime + 2/rate], which strictly contains
\* the window; a stream it returns is the decoded stream trimmed to the
\* original [starttime, endtime].
C1_PaddedAndTrimmed ==
    (/\ WaveformDone
     /\ Truthy(call.args.channel)
     /\ HasWindow
     /\ FirstChar(call.args.channel.s) \in DOMAIN BAND_CODE)
    => LET start == AsTime(call.args.starttime).ms
           end == AsTime(call.args.endtime).ms
           pad == 2000 \div BAND_CODE[FirstChar(call.args.channel.s)]
       IN  /\ {i \in DOMAIN requests : requests[i].url = WaveformUrl} = {1}
           /\ requests[1].method = "GET"
           /\ requests[1].params["start_datetime"] = Str(UTCDateTime(start - pad))
           /\ requests[1].params["end_datetime"] = Str(UTCDateTime(end + pad))
           /\ start - pad < start
           /\ end < end + pad
           /\ result.kind = "return" =>
                /\ GotStream
                /\ Bare(result.value) = Trim(Decoded, UTCDateTime(start), UTCDateTime(end))

\* channel EHZ and the window [0 s, 10 s]: the fetch was for 25 ms more on both
\* ends, and the stream returned is the decoded one cut to the window
C1_Witness ==
    /\ WaveformDone
    /\ call.args.channel = PyStr("EHZ")
    /\ call.args.starttime = UTCDateTime(0)
    /\ call.args.endtime = UTCDateTime(10000)
    /\ requests[1].params["start_datetime"] = "-25Z"
    /\ requests[1].params["end_datetime"] = "10025Z"
    /\ result.kind = "return"
    /\ Bare(result.value) # Decoded
    /\ Bare(result.value) = <<Trace("BW.MANZ..EHZ", 0, 10000)>>

\* the server answered the waveform fetch with a stream of at least one trace
NonEmptyAnswer == GotStream /\ Len(Decoded) > 0

\* the server answered every request of the call
AllAnswered == \A i \in DOMAIN requests : requests[i].response.kind = "body"

\* the station lookups the call asks for find the station, and the server
\* holds the same records for starttime and for endtime
StationFound ==
    (Truthy(call.args.getPAZ) \/ Truthy(call.args.getCoordinates))
    => /\ call.listS.kind = "body"
       /\ call.listS.doc.nodes # <<>>
       /\ Truthy(call.args.metadata_timecheck) => call.listE = call.listS

\* C2, as stated: a getWaveform call with no channel (None or empty) that the
\* server answers with a non-empty stream succeeds: it warns, fetches exactly
\* the window given, and returns the decoded stream untrimmed.  Stated for
\* the calls whose every request the server answers and whose station, if
\* metadata is asked for, is found and unchanged over the window.
C2_SucceedsAsStated ==
    (/\ WaveformDone
     /\ ~Truthy(call.args.channel)
     /\ NonEmptyAnswer
     /\ AllAnswered
     /\ StationFound)
    => /\ result.kind = "return"
       /\ \E i \in DOMAIN warnings : warnings[i] = NoChannelWarning
       /\ WindowAsGiven
       /\ Bare(result.value) = Decoded

\* no channel but getPAZ asked for: the stream fetched for the window as
\* given, the station listed, and the call fails with TypeError
C2_Witness ==
    /\ WaveformDone
    /\ call.args.channel = None
    /\ Truthy(call.args.getPAZ)
    /\ NonEmptyAnswer
    /\ AllAnswered
    /\ StationFound
    /\ warnings = <<NoChannelWarning>>
    /\ WindowAsGiven
    /\ Len(requests) = 2
    /\ requests[2].url = StationListUrl
    /\ result = [kind |-> "raise", exc |-> "TypeError"]

\* C3, as stated: getWaveform, getPreview and getPreviewByIds never return an
\* empty result: a stream is returned only if the body of the response was
\* not empty and the decoded stream has at least one trace; and getWaveform
\* fails with the empty-result error right after its fetch, before any
\* lookup of station metadata.
C3_NeverEmptyResult ==
    /\ (/\ pc = "done"
        /\ call.op \in {"getWaveform", "getPreview", "getPreviewByIds"}
        /\ result.kind = "return")
       => (GotStream /\ Len(Decoded) > 0)
    /\ (/\ WaveformDone
        /\ Len(requests) >= 1
        /\ requests[1].response.kind = "body"
        /\ ~(GotStream /\ Len(Decoded) > 0))
       => (/\ result = [kind |-> "raise", exc |-> NoWaveformData]
           /\ Len(requests) = 1)

\* the requests of the station listing, in the order sent
IsStationList(req) == req.url = StationListUrl
DatetimeSent(req) == IF "datetime" \in DOMAIN req.params THEN req.params["datetime"] ELSE ""
ListingTimes ==
    LET sent == SelectSeq(requests, IsStationList)
    IN  [i \in DOMAIN sent |-> DatetimeSent(sent[i])]

\* the datetime a lookup at this time sends
TimeArg(v) == IF Truthy(v) THEN Str(v) ELSE ""

\* how many of getPAZ and getCoordinates are asked for
Flags ==
    (IF Truthy(call.args.getPAZ) THEN 1 ELSE 0)
    + (IF Truthy(call.args.getCoordinates) THEN 1 ELSE 0)

\* the station lookups of the call, made on their own
PazAt(time, list) ==
    getPAZ(call.client, call.args.network, call.args.station, time, call.args.location,
           call.args.channel, FALSE, list, StationResources)
CoordinatesAt(time, list) ==
    getCoordinates(call.client, call.args.network, call.args.station, time,
                   call.args.location, list)

\* both lookups succeed
Both(atStart, atEnd) == atStart.kind = "return" /\ atEnd.kind = "return"

\* the call came to its station lookups
ReachedLookups ==
    /\ WaveformDone
    /\ Len(requests) >= 1
    /\ ReachesLookups(call.args, requests[1].response)

\* C4: with metadata_timecheck set, a getWaveform call that asks for getPAZ
\* (getCoordinates) returns a stream only after looking the metadata up at
\* starttime and at endtime with identical results; if the two results differ
\* it fails with the metadata-instability error.  With metadata_timecheck
\* unset only the lookup at starttime is made and no such error occurs.
C4_MetadataTimecheck ==
    ReachedLookups =>
        LET a == call.args
            pazS == PazAt(a.starttime, call.listS)
            pazE == PazAt(a.endtime, call.listE)
            coordsS == CoordinatesAt(a.starttime, call.listS)
            coordsE == CoordinatesAt(a.endtime, call.listE)
            pair == <<TimeArg(a.starttime), TimeArg(a.endtime)>>
            pazFine == ~Truthy(a.getPAZ) \/ (Both(pazS, pazE) /\ pazS.value = pazE.value)
        IN  IF Truthy(a.metadata_timecheck)
            THEN /\ result.kind = "return" =>
                    /\ ListingTimes = (IF Truthy(a.getPAZ) THEN pair ELSE <<>>)
                                      \o (IF Truthy(a.getCoordinates) THEN pair ELSE <<>>)
                    /\ pazFine
                    /\ Truthy(a.getCoordinates) =>
                        (Both(coordsS, coordsE) /\ coordsS.value = coordsE.value)
                 /\ (Truthy(a.getPAZ) /\ Both(pazS, pazE) /\ pazS.value # pazE.value)
                    => result = [kind |-> "raise", exc |-> PazChanging]
                 /\ (/\ pazFine
                     /\ Truthy(a.getCoordinates)
                     /\ Both(coordsS, coordsE)
                     /\ coordsS.value # coordsE.value)
                    => result = [kind |-> "raise", exc |-> CoordinatesChanging]
            ELSE /\ result.kind = "raise" =>
                    result.exc \notin {PazChanging, CoordinatesChanging}
                 /\ Len(ListingTimes) <= Flags
                 /\ \A i \in DOMAIN ListingTimes : ListingTimes[i] = TimeArg(a.starttime)
                 /\ result.kind = "return" => Len(ListingTimes) = Flags

\* PAZ and coordinates were looked up at 0 s and at 10 s, were the same, and
\* the stream was returned with both attached
C4_Witness ==
    /\ ReachedLookups
    /\ Truthy(call.args.getPAZ)
    /\ Truthy(call.args.getCoordinates)
    /\ Truthy(call.args.metadata_timecheck)
    /\ ListingTimes = <<"0Z", "10000Z", "0Z", "10000Z">>
    /\ result.kind = "return"
    /\ \A i \in DOMAIN result.value :
        DOMAIN result.value[i].stats = {"paz", "coordinates"}

-----------------------------------------------------------------------------
(* Claims about the requests with an explicit method (SpecHTTP).           *)

HTTPDone == pc = "done" /\ call.op \in {"_HTTP_request", "putResource", "deleteResource"}

\* method and presence of a body agree
Agree(method, xml_string) ==
    /\ method \in {"PUT", "POST", "HEAD", "GET", "DELETE"}
    /\ method \in {"PUT", "POST"} => xml_string # ""
    /\ method \in {"HEAD", "GET", "DELETE"} => xml_string = ""

\* C5: _HTTP_request, and putResource and deleteResource through it, sends a
\* request only when the method is one of PUT, POST, HEAD, GET, DELETE and
\* agrees with the presence of a body (PUT and POST with one, HEAD, GET and
\* DELETE without); otherwise it raises ValueError or TypeError and sends
\* nothing.  RequestWithMethod refuses any other method.
C5_FailsFast ==
    /\ HTTPDone =>
        IF Agree(call.method, call.xml_string)
        THEN /\ Len(requests) = 1
             /\ requests[1].method = call.method
             /\ requests[1].data = call.xml_string
        ELSE /\ requests = <<>>
             /\ result.kind = "raise"
             /\ result.exc = (IF call.method \in {"PUT", "POST", "HEAD", "GET", "DELETE"}
                              THEN "TypeError" ELSE "ValueError")
    /\ (pc = "done" /\ call.op = "RequestWithMethod") =>
        /\ requests = <<>>
        /\ call.method \notin {"PUT", "POST", "HEAD", "GET", "DELETE"}
            <=> result = [kind |-> "raise", exc |-> "ValueError"]

\* putResource with an empty xml_string failed with TypeError, nothing sent
C5_Witness ==
    /\ HTTPDone
    /\ call.op = "putResource"
    /\ call.xml_string = ""
    /\ requests = <<>>
    /\ result = [kind |-> "raise", exc |-> "TypeError"]

\* the request got a status: urlopen returned a response or raised HTTPError
GotStatus ==
    /\ Len(requests) = 1
    /\ requests[1].response.kind \in {"response", "HTTPError"}

\* C6: whenever a request of _HTTP_request gets a status from the server, be
\* it returned as a response or raised as an HTTPError, the call returns the
\* pair (status code, status message) and raises nothing.
C6_StatusReturned ==
    (HTTPDone /\ GotStatus) =>
        result = [kind |-> "return",
                  value |-> <<requests[1].response.code, requests[1].response.msg>>]

\* deleteResource got 404 as an HTTPError and returned (404, 'Not Found')
C6_Witness ==
    /\ HTTPDone
    /\ call.op = "deleteResource"
    /\ GotStatus
    /\ requests[1].response.kind = "HTTPError"
    /\ result = [kind |-> "return", value |-> <<404, "Not Found">>]

\* C7: testAuth sends one HEAD request without a body to base_url + '/xml/';
\* it returns True exactly for status 200, False exactly for status 401, and
\* raises the unexpected-status error for every other status.
C7_TestAuth ==
    (pc = "done" /\ call.op = "testAuth") =>
        /\ Len(requests) = 1
        /\ requests[1].method = "HEAD"
        /\ requests[1].url = clients[call.client].base_url \o "/xml/"
        /\ requests[1].data = ""
        /\ GotStatus =>
            LET code == requests[1].response.code IN
            /\ result = [kind |-> "return", value |-> TRUE] <=> code = 200
            /\ result = [kind |-> "return", value |-> FALSE] <=> code = 401
            /\ code \notin {200, 401} =>
                result = [kind |-> "raise",
                          exc |-> "Exception: Unexpected request status code: "
                                    \o ToString(code)]

\* the second client's testAuth got 401 and returned False
C7_Witness ==
    /\ pc = "done"
    /\ call.op = "testAuth"
    /\ call.client = 2
    /\ GotStatus
    /\ requests[1].response.code = 401
    /\ result = [kind |-> "return", value |-> FALSE]

-----------------------------------------------------------------------------
(* Claims about the keywords of the mapper operations (SpecMapper).        *)

\* a mapper operation sent its request
MapperDone ==
    /\ pc = "done"
    /\ call.op \in {"getNetworkIds", "getStationIds", "getLocationIds", "getChannelIds",
                    "getLatency", "station.getList", "getPreview"}
    /\ Len(requests) = 1

\* the deprecated keys the call gives with a non-empty value
GivenDeprecated ==
    {d \in DOMAIN DEPRECATED_KEYWORDS \cap DOMAIN call.kw : Truthy(call.kw[d])}

EntriesOf(key, value) == FoldOne(EmptyDict, key, value)

-----------------------------------------------------------------------------
(* Claims about the parameter normalisation of _fetch (SpecFetch).         *)

\* a direct call of _fetch that sent its request
FetchDone == pc = "done" /\ call.op = "_fetch" /\ Len(requests) = 1

\* the names of the entries the keys other than k write
OtherWrites(kwargs, k) ==
    UNION {Writes(j, kwargs[j]) : j \in DOMAIN kwargs \ {k}}

\* C8, as stated: for every key k of the keyword arguments whose value is a
\* 2-element tuple or list (a, b), the params of the request hold
\* min_k = str(a) and max_k = str(b) and no entry named k.
C8_RangeAsStated ==
    FetchDone =>
        \A k \in DOMAIN call.kwargs :
            IsRange(call.kwargs[k]) =>
                LET p == requests[1].params
                    v == call.kwargs[k]
                IN  /\ "min_" \o k \in DOMAIN p
                    /\ "max_" \o k \in DOMAIN p
                    /\ p["min_" \o k] = Str(v.e[1])
                    /\ p["max_" \o k] = Str(v.e[2])
                    /\ k \notin DOMAIN p

\* C8, amended: k is the key after the renaming by KEYWORDS (network becomes
\* network_id, ...), and no other key of the mapping writes an entry named
\* min_k, max_k or k.  Then the params hold min_k = str(a), max_k = str(b),
\* no entry named k, and besides these two only the other keys' entries,
\* for all a and b, the falsy ones included.
C8_RangeFolding ==
    FetchDone =>
        LET kwargs == MapKeywords(call.kwargs)
            p == requests[1].params
        IN  \A k \in DOMAIN kwargs :
                (/\ IsRange(kwargs[k])
                 /\ OtherWrites(kwargs, k) \cap {"min_" \o k, "max_" \o k, k} = {})
                => /\ "min_" \o k \in DOMAIN p
                   /\ "max_" \o k \in DOMAIN p
                   /\ p["min_" \o k] = Str(kwargs[k].e[1])
                   /\ p["max_" \o k] = Str(kwargs[k].e[2])
                   /\ k \notin DOMAIN p
                   /\ DOMAIN p = {"min_" \o k, "max_" \o k} \cup OtherWrites(kwargs, k)

\* a range of two falsy elements, (0, ''), was folded beside another key
C8_Witness ==
    /\ FetchDone
    /\ "magnitude" \in DOMAIN call.kwargs
    /\ call.kwargs["magnitude"] = PyTuple(<<PyInt(0), PyStr("")>>)
    /\ DOMAIN requests[1].params = {"min_magnitude", "max_magnitude", "network_id"}
    /\ requests[1].params["min_magnitude"] = "0"
    /\ requests[1].params["max_magnitude"] = ""

\* the second normalisation was made and sent its request
AgainDone == pc = "done" /\ call.op = "_fetch_again" /\ Len(requests) = 1

\* C9, as stated: normalising the params of a normalisation again yields
\* the same params, for every input mapping.
C9_IdempotentAsStated ==
    AgainDone => requests[1].params = call.first

\* C9, amended: normalising the params of a normalisation again yields the
\* same params whenever no entry of them is the empty string (an entry is
\* empty only when an element of a range stringifies to ''); an empty entry
\* is dropped by the second normalisation and all others are kept.
C9_Idempotent ==
    AgainDone =>
        LET kept == {k \in DOMAIN call.first : call.first[k] # ""}
        IN  requests[1].params = [k \in kept |-> call.first[k]]

\* params with several entries, none empty, were normalised again
C9_Witness ==
    /\ AgainDone
    /\ Cardinality(DOMAIN call.first) >= 3
    /\ \A k \in DOMAIN call.first : call.first[k] # ""
    /\ requests[1].params = call.first

-----------------------------------------------------------------------------
(* Claims about the station mapper client (SpecStation).                   *)

StationPazDone == pc = "done" /\ call.op = "station.getPAZ"

StationCoordinatesDone == pc = "done" /\ call.op = "station.getCoordinates"

\* the station was listed and its resource fetched
ResourceFetched ==
    /\ Len(requests) = 2
    /\ requests[1].response.kind = "body"
    /\ requests[2].response.kind = "body"

\* station_control_header of the resource the server answered with
Header == call.resource.doc.station_control_header

\* the filters of the call, a wildcard leaving none
ChannelFilter == Unfiltered(call.args.channel.s)
LocationFilter == Unfiltered(call.args.location.s)

\* the channel_identifier nodes that match the filters exactly
Matching ==
    {j \in DOMAIN Header :
        /\ Header[j].tag = "channel_identifier"
        /\ Header[j].channel_identifier = ChannelFilter
        /\ Header[j].location_identifier = LocationFilter}

\* the nodes of the channel identified at j: those up to the next
\* channel_identifier
BlockOf(j) ==
    {i \in DOMAIN Header :
        /\ i > j
        /\ \A k \in j + 1 .. i : Header[k].tag # "channel_identifier"}

PazOf(j) == {i \in BlockOf(j) : Header[i].tag = "response_poles_and_zeros"}

GainOf(j, stage) ==
    {i \in BlockOf(j) : /\ Header[i].tag = "channel_sensitivity_gain"
                        /\ Header[i].stage_sequence_number = stage}

\* C11, as stated: station getPAZ called with a channel and/or location
\* filter fails (the malformed-metadata error) if no channel_identifier node
\* of the resource matches the filter exactly, or the channel that matches
\* has no poles-and-zeros, stage 0 or stage 1 gain block; a result it
\* returns is never taken from another channel.
C11_FilterAsStated ==
    (/\ StationPazDone
     /\ ResourceFetched
     /\ ChannelFilter # "" \/ LocationFilter # "")
    => /\ (\A j \in Matching : PazOf(j) = {} \/ GainOf(j, "0") = {} \/ GainOf(j, "1") = {})
            => result.kind = "raise"
       /\ result.kind = "return"
            => \E j \in Matching : \E p \in PazOf(j), s0 \in GainOf(j, "0"),
                                      s1 \in GainOf(j, "1") :
                result.value = PazDict(Header[p], Header[s0], Header[s1],
                                       call.args.seismometer_gain)

\* getPAZ with channel 'EHZ' returned the poles of the channel EHN: the
\* resource holds no poles and zeros for EHZ
C11_Witness ==
    /\ StationPazDone
    /\ ResourceFetched
    /\ call.args.channel = PyStr("EHZ")
    /\ call.args.location = PyStr("")
    /\ \A j \in Matching : PazOf(j) = {}
    /\ result.kind = "return"
    /\ result.value.poles = <<<<-37, 37>>, <<-37, -37>>>>

\* the poles-and-zeros nodes getPAZ chooses among: it takes the first
Candidates ==
    IF ChannelFilter # "" \/ LocationFilter # ""
    THEN Following(Header, ChannelFilter, LocationFilter, "response_poles_and_zeros")
    ELSE Tagged(Header, "response_poles_and_zeros")

\* the i-th of the pairs is (real[i], imag[i]), and there are as many pairs
\* as components
Paired(pairs, real, imag) ==
    /\ Len(real) = Len(imag)
    /\ Len(pairs) = Len(real)
    /\ \A i \in DOMAIN pairs : pairs[i] = <<real[i], imag[i]>>

\* C12, as stated: getPAZ pairs the real and imaginary component lists of
\* the poles (and zeros) element-wise in document order, as many poles as
\* components; real and imaginary lists of different lengths are rejected
\* with an error, no list truncated to the shorter length is returned.
C12_PairingAsStated ==
    (StationPazDone /\ ResourceFetched /\ Candidates # {})
    => /\ (\/ Len(Header[Min(Candidates)].real_pole)
                # Len(Header[Min(Candidates)].imaginary_pole)
           \/ Len(Header[Min(Candidates)].real_zero)
                # Len(Header[Min(Candidates)].imaginary_zero))
            => result.kind = "raise"
       /\ result.kind = "return"
            => /\ Paired(result.value.poles, Header[Min(Candidates)].real_pole,
                         Header[Min(Candidates)].imaginary_pole)
               /\ Paired(result.value.zeros, Header[Min(Candidates)].real_zero,
                         Header[Min(Candidates)].imaginary_zero)

\* three real and two imaginary pole components: two poles were returned
C12_Witness ==
    /\ StationPazDone
    /\ ResourceFetched
    /\ Candidates # {}
    /\ Len(Header[Min(Candidates)].real_pole) = 3
    /\ Len(Header[Min(Candidates)].imaginary_pole) = 2
    /\ result.kind = "return"
    /\ result.value.poles = <<<<-37, 37>>, <<-37, -37>>>>
    /\ result.value.zeros = <<<<0, 0>>>>

\* the records of the station listing the server answered with
Listed == requests[1].response.doc.nodes

\* the listing request was answered with a document
ListingAnswered ==
    /\ Len(requests) >= 1
    /\ requests[1].response.kind = "body"
    /\ requests[1].response.doc.t = "xml"

\* the filter of the getPAZ call finds the nodes it needs in the resource
NodesFound ==
    IF ChannelFilter # "" \/ LocationFilter # ""
    THEN /\ Candidates # {}
         /\ \A stage \in {"0", "1"} :
              \E i \in Following(Header, ChannelFilter, LocationFilter,
                                 "channel_sensitivity_gain") :
                  Header[i].stage_sequence_number = stage
    ELSE Candidates # {} /\ Tagged(Header, "channel_sensitivity_gain") # {}

\* C13: with two or more records in the station listing, getCoordinates
\* returns exactly latitude, longitude and elevation of the first record and
\* warns; getPAZ warns and fetches the resource named by the first record,
\* and returns if that resource is answered and holds the nodes asked for;
\* with an empty listing getCoordinates fails with an error.
C13_FirstRecord ==
    /\ (StationCoordinatesDone /\ ListingAnswered)
        => /\ Len(requests) = 1
           /\ Listed = <<>>
                => result = [kind |-> "raise",
                             exc |-> "Exception: No coordinates for station"]
           /\ Len(Listed) >= 2
                => /\ result = [kind |-> "return",
                                value |-> [latitude |-> Listed[1].latitude,
                                           longitude |-> Listed[1].longitude,
                                           elevation |-> Listed[1].elevation]]
                   /\ warnings = <<"Received more than one metadata set. Using first.">>
    /\ (StationPazDone /\ ListingAnswered /\ Len(Listed) >= 2)
        => /\ warnings = <<"Received more than one PAZ file. Using first.">>
           /\ Len(requests) = 2
           /\ requests[2].url = clients[call.client].base_url
                                    \o "/xml/seismology/station/"
                                    \o Listed[1].resource_name.s
           /\ requests[2].response.kind = "body"
                => (result.kind = "return" <=> NodesFound)

\* two records listed: the coordinates of the first came back, with the
\* warning
C13_Witness ==
    /\ StationCoordinatesDone
    /\ ListingAnswered
    /\ Len(Listed) = 2
    /\ result.kind = "return"
    /\ result.value = [latitude |-> PyInt(49), longitude |-> PyInt(12),
                       elevation |-> PyInt(635)]
    /\ warnings = <<"Received more than one metadata set. Using first.">>

-----------------------------------------------------------------------------
(* Claims about the event mapper client (SpecEvent).                       *)

KmlDone == pc = "done" /\ call.op = "getKML"

\* the records with a date, a magnitude that is a number or empty, and
\* coordinates
Renderable == {EventRecords[i] : i \in 1 .. 6}

\* the label of each of them, written out
LabelOf(record) ==
    CASE record = EventRecords[1] -> "2020-01-01: 5.0"
      [] record = EventRecords[2] -> "2020-02-02"
      [] record = EventRecords[3] -> "2020-01-01: -2.0"
      [] record = EventRecords[4] -> "2020-02-02: 5.1"
      [] record = EventRecords[5] -> "2020-01-01: -1.5"
      [] record = EventRecords[6] -> "2020-02-02: -1.4"

SaveKMLStep == pc = "idle" /\ pc' = "done" /\ call'.op = "saveKML"

\* C16: saveKML with overwrite=False and a filename that exists raises an
\* error before anything else happens: no request is sent and the file is
\* left as it is.  A file is written only by saveKML, only the file named,
\* only if overwrite is True or the file does not exist, and only with what
\* getKML returned after its listing was answered.
C16_SaveKML ==
    [][/\ SaveKMLStep /\ ~Truthy(call'.overwrite) /\ files[call'.filename] # NoFile
            => /\ result' = [kind |-> "raise", exc |-> "OSError"]
               /\ requests' = <<>>
               /\ files' = files
       /\ files' # files
            => /\ SaveKMLStep
               /\ Truthy(call'.overwrite) \/ files[call'.filename] = NoFile
               /\ result' = [kind |-> "return", value |-> None]
               /\ Len(requests') = 1
               /\ requests'[1].response.kind = "body"
               /\ \A filename \in Filenames \ {call'.filename} :
                    files'[filename] = files[filename]
               /\ files'[call'.filename].t = "kml"
               /\ files'[call'.filename].fetched_from = clients[call'.client].base_url
               /\ Len(files'[call'.filename].placemarks)
                    = Len(requests'[1].response.doc.nodes)
       /\ (SaveKMLStep /\ result'.kind = "raise") => files' = files
      ]_vars

\* saveKML found the file and raised, nothing sent, the file still there
C16_Witness ==
    /\ pc = "done"
    /\ call.op = "saveKML"
    /\ ~Truthy(call.overwrite)
    /\ files[call.filename] # NoFile
    /\ files[call.filename].t = "kml"
    /\ result = [kind |-> "raise", exc |-> "OSError"]
    /\ requests = <<>>

-----------------------------------------------------------------------------
(* Claims about the addresses fetched (SpecUrls).                          *)

\* the operations of the waveform, station and event mapper clients that
\* call a mapper of the server, with resource type and operation
MapperOperations ==
    [getNetworkIds |-> <<"waveform", "getNetworkIds">>,
     getStationIds |-> <<"waveform", "getStationIds">>,
     getLocationIds |-> <<"waveform", "getLocationIds">>,
     getChannelIds |-> <<"waveform", "getChannelIds">>,
     getLatency |-> <<"waveform", "getLatency">>,
     getWaveform |-> <<"waveform", "getWaveform">>,
     getPreview |-> <<"waveform", "getPreview">>]
        @@ ("station.getList" :> <<"station", "getList">>)
        @@ ("event.getList" :> <<"event", "getList">>)

\* the operations that fetch a resource by its name
ResourceOperations == {"getResource", "getXMLResource"}

\* a call of one of them has ended, and it sent a request
FetchedByMapper ==
    /\ pc = "done"
    /\ call.op \in DOMAIN MapperOperations \cup ResourceOperations
    /\ requests # <<>>

BaseUrl == clients[call.client].base_url

\* C15, as stated: every fetch of a mapper client operation goes to
\* base_url + '/xml/' + package + '/' + resourcetype + '/' + operation,
\* followed by '?' and the query string.
C15_UrlAsStated ==
    (FetchedByMapper /\ call.op \in DOMAIN MapperOperations)
    => requests[1].url = BaseUrl \o "/xml/" \o "seismology" \o "/"
                            \o MapperOperations[call.op][1] \o "/"
                            \o MapperOperations[call.op][2]

\* C15, amended: the fetch of a mapper operation goes to base_url + '/' +
\* package + '/' + resourcetype + '/' + operation, without '/xml/'; the
\* fetch of getResource and getXMLResource goes to base_url + '/xml/' +
\* package + '/' + resourcetype + '/' + resource_name.  Each is one GET;
\* only getWaveform sends more, for its station lookups, to addresses of
\* the same two forms.
C15_Url ==
    FetchedByMapper
    => /\ \A i \in DOMAIN requests : requests[i].method = "GET"
       /\ call.op \in DOMAIN MapperOperations
            => requests[1].url = BaseUrl \o "/" \o "seismology" \o "/"
                                    \o MapperOperations[call.op][1] \o "/"
                                    \o MapperOperations[call.op][2]
       /\ call.op \in ResourceOperations
            => requests[1].url = BaseUrl \o "/xml/" \o "seismology" \o "/"
                                    \o call.resourcetype \o "/" \o call.resource_name
       /\ call.op # "getWaveform" => Len(requests) = 1
       /\ \A i \in 2 .. Len(requests) :
            \/ requests[i].url = BaseUrl \o "/seismology/station/getList"
            \/ \E name \in DOMAIN StationResources :
                requests[i].url = BaseUrl \o "/xml/seismology/station/" \o name

\* getNetworkIds fetched /seismology/waveform/getNetworkIds
C15_Witness ==
    /\ pc = "done"
    /\ call.op = "getNetworkIds"
    /\ Len(requests) = 1
    /\ requests[1].url =
        "http://teide.geophysik.uni-muenchen.de:8080/seismology/waveform/getNetworkIds"
    /\ result.kind = "return"

-----------------------------------------------------------------------------
(* Further claims about _fetch (SpecFetch), the opener (SpecHTTP) and      *)
(* getWaveform (SpecWaveform).                                             *)

\* the values the claim calls empty: the empty string, None, a collection
\* of length zero
Empty(value) ==
    \/ value = None
    \/ value = PyStr("")
    \/ value.t \in {"tuple", "list"} /\ Len(value.e) = 0

\* C17, as stated: a key whose value is not a range produces no entry if
\* and only if its value is empty (empty string, None, zero-length
\* collection); every other value, the number 0 and False included,
\* produces the entry key = str(value).  The key is taken after the
\* renaming, and no other key of the call writes an entry of its name.
C17_DroppedAsStated ==
    FetchDone =>
        \A k \in DOMAIN MapKeywords(call.kwargs) :
            (/\ ~IsRange(MapKeywords(call.kwargs)[k])
             /\ k \notin OtherWrites(MapKeywords(call.kwargs), k))
            => /\ k \notin DOMAIN requests[1].params
                    <=> Empty(MapKeywords(call.kwargs)[k])
               /\ ~Empty(MapKeywords(call.kwargs)[k])
                    => /\ k \in DOMAIN requests[1].params
                       /\ requests[1].params[k] = Str(MapKeywords(call.kwargs)[k])

\* _fetch(url, min_magnitude=0) sent no parameter at all
C17_Witness ==
    /\ FetchDone
    /\ call.kwargs = [min_magnitude |-> PyInt(0)]
    /\ requests[1].params = EmptyDict

\* the Client constructed last
LastClient == clients[Len(clients)]

\* C18: the opener is one for the process: it holds base_url, user and
\* password of the Client constructed last, and every request, of whatever
\* Client, is sent through it.
C18_ProcessWide ==
    /\ opener = [base_url |-> LastClient.base_url, user |-> LastClient.user,
                 password |-> LastClient.password]
    /\ \A i \in DOMAIN requests :
        requests[i].opener = [base_url |-> LastClient.base_url,
                              user |-> LastClient.user,
                              password |-> LastClient.password]

\* a request of the first Client went out with the credentials and the
\* address of the second, which are not its own
C18_Witness ==
    /\ pc = "done"
    /\ Len(clients) = 2
    /\ call.client = 1
    /\ clients[1].base_url # clients[2].base_url
    /\ clients[1].user # clients[2].user
    /\ Len(requests) = 1
    /\ requests[1].url = clients[1].base_url \o "/xml/"
    /\ requests[1].opener.user = clients[2].user
    /\ requests[1].opener.base_url = clients[2].base_url

\* C19, as stated: getWaveform with getPAZ (resp. getCoordinates) set,
\* answered with a non-empty stream, the station found and its records the
\* same for starttime and endtime, returns the stream with 'paz' (resp.
\* 'coordinates', those of the first record listed) in the stats of every
\* trace, also with location or channel left at None.
C19_MetadataAsStated ==
    (/\ WaveformDone
     /\ Truthy(call.args.getPAZ) \/ Truthy(call.args.getCoordinates)
     /\ NonEmptyAnswer
     /\ AllAnswered
     /\ StationFound)
    => /\ result.kind = "return"
       /\ \A i \in DOMAIN result.value :
            /\ Truthy(call.args.getPAZ) => "paz" \in DOMAIN result.value[i].stats
            /\ Truthy(call.args.getCoordinates)
                => /\ "coordinates" \in DOMAIN result.value[i].stats
                   /\ result.value[i].stats["coordinates"] =
                        [latitude |-> call.listS.doc.nodes[1].latitude,
                         longitude |-> call.listS.doc.nodes[1].longitude,
                         elevation |-> call.listS.doc.nodes[1].elevation]

\* getPAZ asked for channel 'EHZ', the location left at None: the stream
\* was fetched, the station listed, and the call failed with TypeError
C19_Witness ==
    /\ WaveformDone
    /\ call.args.channel = PyStr("EHZ")
    /\ call.args.location = None
    /\ Truthy(call.args.getPAZ)
    /\ NonEmptyAnswer
    /\ AllAnswered
    /\ StationFound
    /\ Len(requests) = 2
    /\ result = [kind |-> "raise", exc |-> "TypeError"]

====
